---- MODULE Spec2Model ----
(***************************************************************************)
(* Engine runtime of Scriberr's inference engines: the job status store    *)
(* (asr_engine/status_store.py and diar_engine/status_store.py), the       *)
(* diarization engine's single-slot job runner (diar_engine/job_runner.py),*)
(* its pipeline's control flow (diar_engine/backend.py), model manager     *)
(* (diar_engine/model_manager.py) and gRPC service (diar_engine/server.py).*)
(* The ASR engine's pipeline (asr_engine/backend.py, transcribe) runs      *)
(* under the same job runner.                                              *)
(*                                                                         *)
(* Python objects are modelled by reference: heap is the sequence of       *)
(* JobStatus objects ever constructed, and the store, the subscriber       *)
(* queues and the worker's locals hold indices into it, so that an         *)
(* in-place update of a stored status is seen through every reference.     *)
(***************************************************************************)
EXTENDS Integers, Sequences, FiniteSets, TLC

VARIABLES
    engine,       \* which status store implementation is in use: "asr" or "diar"
    heap,         \* JobStatus objects, by reference (index)
    status,       \* JobStatusStore._status: job_id -> reference, 0 when absent
    subscribers,  \* JobStatusStore._subscribers: job_id -> list of sinks
    recv,         \* per sink, every element ever put on its queue, in order
    taken,        \* per sink, how many elements its consumer has dequeued
    pubs,         \* history: every set() applied to the store, in order
    active,       \* JobRunner._active_job_id
    token,        \* JobRunner._cancel_token: a CancelToken reference, 0 for None
    cancelled,    \* the CancelToken objects whose event is set
    runs,         \* number of accepted start_job calls (also the last token minted)
    loaded,       \* ModelManager._loaded
    rpc,
                   \* per gRPC pool thread: position inside the StartJob handler
    reply,        \* the response of the RPC that completed last
    worker,       \* the job thread: position inside _run_job / diarize, and locals
    outcome,      \* history: per accepted run, how its pipeline ended
    stream,       \* per StreamJobStatus call: position, job_id, context liveness
    yielded       \* per StreamJobStatus call: the states of the statuses it yielded

vars == <<engine, heap, status, subscribers, recv, taken, pubs, active, token,
          cancelled, runs, loaded, rpc, reply, worker, outcome, stream, yielded>>

storeVars == <<heap, status, subscribers, recv, taken, pubs>>
runnerVars == <<active, token, cancelled, runs>>

None == "none"

\* Bounds of the model.
MaxRuns == 2        \* start_job calls accepted over a behaviour
MaxSets == 2        \* set() calls in the store-only specification
MaxAudio == 4       \* samples of the longest audio an ASR job decodes

Jobs == {"a", "b"}
JobIds == Jobs \cup {""}      \* request.job_id: any string, the empty one included
Threads == {"t1", "t2"}
Sinks == {"s1", "s2"}
ModelIds == {"pyannote", "sortformer"}
ModelNames == {"m1"}
RequestModelIds == {""} \cup ModelIds

Terminal == {"COMPLETED", "FAILED", "CANCELLED"}
States == {"QUEUED", "RUNNING"} \cup Terminal

\* Error texts str(exc) of the exceptions the pipeline can raise.
Errors == {"No model loaded", "io error", "model error", "attribute error"}

Range(s) == {s[i] : i \in 1..Len(s)}
Min(x, y) == IF x <= y THEN x ELSE y
Max(x, y) == IF x >= y THEN x ELSE y

RECURSIVE Factorial(_)
Factorial(n) == IF n <= 1 THEN 1 ELSE n * Factorial(n - 1)
Remove(s, x) == SelectSeq(s, LAMBDA y : y # x)

----------------------------------------------------------------------------
(* JobStatus and the status stores *)

\* The progress 1.0. The diarization engine only has 0.0 and 1.0, written 0
\* and 1. The ASR engine has end / len(audio) for every chunk end: a progress
\* p is written p * MaxAudio!, a whole number for every length up to MaxAudio.
ProgressOne == IF engine = "asr" THEN Factorial(MaxAudio) ELSE 1

\* JobStatus(job_id, state, message="", progress=0.0, outputs={},
\* started_unix_ms=0, finished_unix_ms=0): outputs is the set of the
\* <<name, path>> items of the dict.
JobStatus(job_id, state, message, progress, outputs) ==
    [job_id |-> job_id, state |-> state, message |-> message,
     progress |-> progress, outputs |-> outputs,
     started_unix_ms |-> 0, finished_unix_ms |-> 0]

\* _now_ms(): the clock, as a logical time that never decreases: the number
\* of publications made so far.
NowMs == Len(pubs)

\* JobStatus(..., started_unix_ms=started, finished_unix_ms=finished)
Stamped(st, started, finished) ==
    [st EXCEPT !.started_unix_ms = started, !.finished_unix_ms = finished]

\* The statuses of the store as get() returns them.
StoreGet(job_id) == status[job_id]

\* for q in self._subscribers.get(job_id, []): q.put(status)
FanOut(job_id, ref, idx) ==
    [s \in Sinks |->
        IF s \in Range(subscribers[job_id])
        THEN Append(recv[s], [ref |-> ref, pub |-> idx, replay |-> FALSE])
        ELSE recv[s]]

\* The publication that stored the current status of job_id (history).
LastPub(job_id) ==
    LET idx == {i \in 1..Len(pubs) : pubs[i].snap.job_id = job_id}
    IN  IF idx = {} THEN 0 ELSE CHOOSE i \in idx : \A k \in idx : k <= i

\* asr_engine set(status): under the lock, store the reference and put it on
\* the queue of every subscriber of its job_id. h is the heap as the caller
\* left it (the object may be new or updated in place).
AsrSet(h, ref, run) ==
    LET job_id == h[ref].job_id IN
    /\ heap' = h
    /\ status' = [status EXCEPT ![job_id] = ref]
    /\ pubs' = Append(pubs, [run |-> run, ref |-> ref, snap |-> h[ref]])
    /\ recv' = FanOut(job_id, ref, Len(pubs) + 1)

\* A faulty variant of set(): only the first subscriber of the job is served.
DiarSet_FirstOnly(h, ref, run) ==
    LET job_id == h[ref].job_id IN
    /\ heap' = h
    /\ status' = [status EXCEPT ![job_id] = ref]
    /\ pubs' = Append(pubs, [run |-> run, ref |-> ref, snap |-> h[ref]])
    /\ recv' = IF subscribers[job_id] = <<>> THEN recv
               ELSE [recv EXCEPT ![Head(subscribers[job_id])] =
                        Append(@, [ref |-> ref, pub |-> Len(pubs) + 1, replay |-> FALSE])]

\* A faulty variant of set(): the queues hold one status (queue.Queue(1)), and
\* put() waits while a subscriber's queue is full.
DiarSet_Bounded(h, ref, run) ==
    LET job_id == h[ref].job_id IN
    /\ \A s \in Range(subscribers[job_id]) : taken[s] = Len(recv[s])
    /\ heap' = h
    /\ status' = [status EXCEPT ![job_id] = ref]
    /\ pubs' = Append(pubs, [run |-> run, ref |-> ref, snap |-> h[ref]])
    /\ recv' = FanOut(job_id, ref, Len(pubs) + 1)

\* diar_engine set(status): the same code as in asr_engine.
DiarSet(h, ref, run) ==
    LET job_id == h[ref].job_id IN
    /\ heap' = h
    /\ status' = [status EXCEPT ![job_id] = ref]
    /\ pubs' = Append(pubs, [run |-> run, ref |-> ref, snap |-> h[ref]])
    /\ recv' = FanOut(job_id, ref, Len(pubs) + 1)

StoreSet(h, ref, run) ==
    IF engine = "asr" THEN AsrSet(h, ref, run) ELSE DiarSet(h, ref, run)

\* A faulty variant of the ASR subscribe(): the cached status is not replayed.
AsrSubscribe_NoReplay(s, job_id) ==
    /\ subscribers' = [subscribers EXCEPT ![job_id] = Append(@, s)]
    /\ recv' = recv

\* asr_engine subscribe(): registers a fresh queue and, when a status is
\* stored for job_id, puts it on the queue, all under the lock.
AsrSubscribe(s, job_id) ==
    /\ subscribers' = [subscribers EXCEPT ![job_id] = Append(@, s)]
    /\ recv' = IF status[job_id] # 0
               THEN [recv EXCEPT ![s] = Append(@, [ref |-> status[job_id],
                                                   pub |-> LastPub(job_id),
                                                   replay |-> TRUE])]
               ELSE recv

\* diar_engine subscribe(): registers a fresh queue and nothing else.
DiarSubscribe(s, job_id) ==
    /\ subscribers' = [subscribers EXCEPT ![job_id] = Append(@, s)]
    /\ recv' = recv

StoreSubscribe(s, job_id) ==
    IF engine = "asr" THEN AsrSubscribe(s, job_id) ELSE DiarSubscribe(s, job_id)

\* asr_engine unsubscribe(job_id, q): if q in subs: subs.remove(q)
AsrUnsubscribe(s, job_id) ==
    subscribers' = [subscribers EXCEPT ![job_id] = Remove(@, s)]

\* A faulty variant of unsubscribe: the queue stays in the list.
DiarUnsubscribe_Keeps(s, job_id) == subscribers' = subscribers

\* diar_engine unsubscribe(job_id, q): the list without q; an emptied list is
\* dropped from the dict, which reads as the empty list.
DiarUnsubscribe(s, job_id) ==
    subscribers' = [subscribers EXCEPT ![job_id] = Remove(@, s)]

StoreUnsubscribe(s, job_id) ==
    IF engine = "asr" THEN AsrUnsubscribe(s, job_id) ELSE DiarUnsubscribe(s, job_id)

\* asr_engine reset() (diar_engine has none).
AsrReset ==
    /\ status' = [j \in JobIds |-> 0]
    /\ subscribers' = [j \in JobIds |-> <<>>]

\* The queue of sink s: what was put and not yet taken.
Queue(s) == SubSeq(recv[s], taken[s] + 1, Len(recv[s]))

----------------------------------------------------------------------------
(* Model manager *)

ModelSpec(model_id, model_name) == [model_id |-> model_id, model_name |-> model_name]

\* The empty slot: self._loaded is None.
NoModel == [model_id |-> "", model_name |-> "", token |-> None]

\* _default_loader on success: the LoadedModel it returns (pyannote keeps the
\* token it was loaded with; HF_TOKEN and PYANNOTE_TOKEN are unset).
Loader(spec, hf_token) ==
    [model_id |-> spec.model_id, model_name |-> spec.model_name,
     token |-> IF spec.model_id = "pyannote" THEN hf_token ELSE None]

\* _default_loader raises for an id that is neither pyannote nor sortformer;
\* for the others it raises when the model cannot be opened (can_open).
LoaderRaises(spec, can_open) == spec.model_id \notin ModelIds \/ ~can_open

\* ensure_loaded(spec, hf_token): whether the loader is invoked.
EnsureReloads(spec, hf_token) ==
    \/ loaded = NoModel
    \/ loaded.model_id # spec.model_id
    \/ (spec.model_id = "pyannote" /\ hf_token # None /\ loaded.token # hf_token)

\* A faulty variant of unload: the model_id it is given is not compared.
Unloads_AnyId(model_id) == loaded # NoModel

\* unload(model_id): whether the slot is emptied ("" stands for no model_id).
Unloads(model_id) ==
    /\ loaded # NoModel
    /\ ~(model_id # "" /\ loaded.model_id # model_id)

----------------------------------------------------------------------------
(* Replies of the service *)

Response(name, ok, message) ==
    [rpc |-> name, kind |-> "response", code |-> "OK", ok |-> ok, message |-> message]

\* context.abort(code, message): the handler ends there with an error status.
Abort(name, code, message) ==
    [rpc |-> name, kind |-> "abort", code |-> code, ok |-> FALSE, message |-> message]

NoReply == Response(None, FALSE, "")

\* A faulty variant of the busy answer: a normal response instead of an abort.
BusyReply_Response == Response("StartJob", FALSE, "engine busy")

\* StartJob when start_job returned False.
BusyReply == Abort("StartJob", "RESOURCE_EXHAUSTED", "engine busy")

----------------------------------------------------------------------------
(* Job runner: start_job and stop_job *)

\* JobParams.from_kv of a request that sets neither model nor hf_token.
DefaultParams == [model |-> None, hf_token |-> None, output_format |-> "rttm"]
ParamSets == {DefaultParams}

\* JobParams.from_kv of requests with and without an hf_token.
TokenParamSets ==
    {DefaultParams, [model |-> None, hf_token |-> "tok1", output_format |-> "rttm"]}

IdleThread == [pc |-> "idle", job |-> None, params |-> DefaultParams]
\* The job thread's locals. audio, chunk, batch, lo, hi and cur are those of
\* transcribe: len(audio), chunk_samples, batch_size, batch_start, the number
\* of (chunk, result) pairs of the current batch and the pairs already taken.
NoWorker == [pc |-> "none", job |-> None, run |-> 0, token |-> 0, params |-> DefaultParams,
             started |-> 0, st |-> 0, cb |-> 0, model |-> NoModel, err |-> None,
             audio |-> 0, chunk |-> 0, batch |-> 0, lo |-> 0, hi |-> 0, cur |-> 0]

\* A faulty variant of the busy test: the slot is never seen as occupied.
Busy_Never == FALSE

\* start_job: if self._active_job_id is not None: return False
Busy == active # None

\* LoadModel: validates the spec, then ModelManager.load(spec).
LoadModel(spec, can_open) ==
    /\ IF spec.model_id = ""
       THEN /\ reply' = Abort("LoadModel", "INVALID_ARGUMENT", "model_id is required")
            /\ UNCHANGED loaded
       ELSE IF spec.model_name = ""
       THEN /\ reply' = Abort("LoadModel", "INVALID_ARGUMENT", "model_name is required")
            /\ UNCHANGED loaded
       ELSE IF LoaderRaises(spec, can_open)
       THEN /\ reply' = Abort("LoadModel", "UNKNOWN", "load failed")
            /\ UNCHANGED loaded
       ELSE /\ loaded' = Loader(spec, None)
            /\ reply' = Response("LoadModel", TRUE, "loaded")
    /\ UNCHANGED <<engine, storeVars, runnerVars, rpc, worker, outcome, stream, yielded>>

\* UnloadModel: ModelManager.unload(request.model_id or None).
UnloadModel(model_id) ==
    /\ IF Unloads(model_id)
       THEN /\ loaded' = NoModel
            /\ reply' = Response("UnloadModel", TRUE, "unloaded")
       ELSE /\ UNCHANGED loaded
            /\ reply' = Response("UnloadModel", FALSE, "not_loaded")
    /\ UNCHANGED <<engine, storeVars, runnerVars, rpc, worker, outcome, stream, yielded>>

\* GetEngineInfoResponse(busy, active_job_id, loaded_model_id, rss_bytes),
\* without rss_bytes.
EngineInfo(busy, active_job_id, loaded_model_id) ==
    [rpc |-> "GetEngineInfo", kind |-> "response", code |-> "OK", busy |-> busy,
     active_job_id |-> active_job_id, loaded_model_id |-> loaded_model_id]

\* GetEngineInfo: active_job_id = self._runner.active_job_id() or "",
\* busy = bool(active_job_id), loaded_model_id = the loaded id or "".
GetEngineInfo ==
    /\ LET active_job_id == IF active = None \/ active = "" THEN "" ELSE active
       IN  reply' = EngineInfo(active_job_id # "", active_job_id, loaded.model_id)
    /\ UNCHANGED <<engine, storeVars, runnerVars, loaded, rpc, worker, outcome, stream, yielded>>

\* A faulty variant of StartJob: start_job is called without the two checks.
StartJobCheck_Unchecked(t, job_id, model_id, params) ==
    /\ rpc[t].pc = "idle"
    /\ runs + Cardinality({u \in Threads : rpc[u].pc = "start"}) < MaxRuns
    /\ rpc' = [rpc EXCEPT ![t] = [pc |-> "start", job |-> job_id, params |-> params]]
    /\ UNCHANGED <<engine, storeVars, runnerVars, loaded, reply, worker, outcome, stream, yielded>>

\* StartJob up to the call of start_job: the loaded-model and model_id checks
\* and JobParams.from_kv (which never raises).
StartJobCheck(t, job_id, model_id, params) ==
    /\ rpc[t].pc = "idle"
    /\ runs + Cardinality({u \in Threads : rpc[u].pc = "start"}) < MaxRuns
    /\ IF loaded = NoModel
       THEN /\ reply' = Abort("StartJob", "FAILED_PRECONDITION", "no model loaded")
            /\ UNCHANGED rpc
       ELSE IF model_id # "" /\ model_id # loaded.model_id
       THEN /\ reply' = Abort("StartJob", "INVALID_ARGUMENT", "model_id mismatch")
            /\ UNCHANGED rpc
       ELSE /\ rpc' = [rpc EXCEPT ![t] = [pc |-> "start", job |-> job_id, params |-> params]]
            /\ UNCHANGED reply
    /\ UNCHANGED <<engine, storeVars, runnerVars, loaded, worker, outcome, stream, yielded>>

----------------------------------------------------------------------------
(* JobParams.from_kv of the diarization engine *)

\* The values a request's params map gives to a key; None: the key is absent.
BoolTexts == {None, " True ", "0", "maybe"}
IntTexts == {None, "4", "0", "x"}

\* value.strip().lower() for the texts above.
StripLower(value) == IF value = " True " THEN "true" ELSE value

\* _parse_bool(value, default)
ParseBool(value, default) ==
    IF value = None THEN default
    ELSE StripLower(value) \in {"1", "true", "yes", "y", "on"}

\* int(value) for the texts that int() accepts; the others raise ValueError.
IntOf == [v \in {"4", "0"} |-> IF v = "4" THEN 4 ELSE 0]

\* _parse_int(value, default)
ParseInt(value, default) ==
    IF value = None THEN default
    ELSE IF value \in DOMAIN IntOf THEN IntOf[value]
    ELSE default

\* x or y, for a number x
OrElse(x, y) == IF x = 0 THEN y ELSE x

\* The params maps of the requests: every combination of the values above for
\* the keys output_format, hf_token, model, batch_size and exclusive.
KvMaps ==
    [output_format : {None, "json"}, hf_token : {None, "", "tok1"}, model : {None, "m2"},
     batch_size : IntTexts, exclusive : BoolTexts]

\* JobParams.from_kv(params), for the keys output_format, hf_token, model,
\* batch_size and exclusive.
FromKv(kv) ==
    [output_format |-> IF kv.output_format = None THEN "rttm" ELSE kv.output_format,
     hf_token |-> IF kv.hf_token = "" THEN None ELSE kv.hf_token,
     model |-> IF kv.model = "" THEN None ELSE kv.model,
     batch_size |-> OrElse(ParseInt(kv.batch_size, 1), 1),
     exclusive |-> ParseBool(kv.exclusive, FALSE)]

\* StartJob, from the request as it arrives: params = JobParams.from_kv(
\* dict(request.params)) between the checks and start_job.
StartJobRequest(t, job_id, model_id, kv) == StartJobCheck(t, job_id, model_id, FromKv(kv))

----------------------------------------------------------------------------
(* Job runner: start_job *)

\* A faulty variant of start_job: the slot and the token are assigned before the
\* busy test.
StartJobLocked_Overwrites(t) ==
    /\ rpc[t].pc = "start"
    /\ IF Busy
       THEN /\ rpc' = [rpc EXCEPT ![t] = IdleThread]
            /\ reply' = BusyReply
            /\ active' = rpc[t].job
            /\ token' = 0
            /\ UNCHANGED <<cancelled, runs, outcome>>
       ELSE /\ active' = rpc[t].job
            /\ token' = runs + 1
            /\ runs' = runs + 1
            /\ outcome' = Append(outcome, [job |-> rpc[t].job, result |-> "pending",
                                             files |-> {}, torn |-> {}, late |-> 0])
            /\ rpc' = [rpc EXCEPT ![t].pc = "queued"]
            /\ UNCHANGED <<cancelled, reply>>
    /\ UNCHANGED <<engine, storeVars, loaded, worker, stream, yielded>>

\* A faulty variant of start_job: one CancelToken serves every run.
StartJobLocked_SharedToken(t) ==
    /\ rpc[t].pc = "start"
    /\ IF Busy
       THEN /\ rpc' = [rpc EXCEPT ![t] = IdleThread]
            /\ reply' = BusyReply
            /\ UNCHANGED <<runnerVars, outcome>>
       ELSE /\ active' = rpc[t].job
            /\ token' = 1
            /\ runs' = runs + 1
            /\ outcome' = Append(outcome, [job |-> rpc[t].job, result |-> "pending",
                                             files |-> {}, torn |-> {}, late |-> 0])
            /\ rpc' = [rpc EXCEPT ![t].pc = "queued"]
            /\ UNCHANGED <<cancelled, reply>>
    /\ UNCHANGED <<engine, storeVars, loaded, worker, stream, yielded>>

\* start_job, the part under the runner's lock; on False the handler aborts.
StartJobLocked(t) ==
    /\ rpc[t].pc = "start"
    /\ IF Busy
       THEN /\ rpc' = [rpc EXCEPT ![t] = IdleThread]
            /\ reply' = BusyReply
            /\ UNCHANGED <<runnerVars, outcome>>
       ELSE /\ active' = rpc[t].job
            /\ token' = runs + 1
            /\ runs' = runs + 1
            /\ outcome' = Append(outcome, [job |-> rpc[t].job, result |-> "pending",
                                             files |-> {}, torn |-> {}, late |-> 0])
            /\ rpc' = [rpc EXCEPT ![t].pc = "queued"]
            /\ UNCHANGED <<cancelled, reply>>
    /\ UNCHANGED <<engine, storeVars, loaded, worker, stream, yielded>>

\* start_job: publishes QUEUED after the lock is released.
StartJobPublish(t) ==
    /\ rpc[t].pc = "queued"
    /\ StoreSet(Append(heap, Stamped(JobStatus(rpc[t].job, "QUEUED", "", 0, {}), NowMs, 0)),
                Len(heap) + 1, runs)
    /\ rpc' = [rpc EXCEPT ![t].pc = "spawn"]
    /\ UNCHANGED <<engine, subscribers, taken, runnerVars, loaded, reply,
                   worker, outcome, stream, yielded>>

\* start_job: starts the thread on _run_job with self._cancel_token as it is
\* now, returns True; the handler answers accepted.
StartJobSpawn(t) ==
    /\ rpc[t].pc = "spawn"
    /\ worker' = [NoWorker EXCEPT !.pc = "running", !.job = rpc[t].job, !.run = runs,
                                  !.token = token, !.params = rpc[t].params]
    /\ rpc' = [rpc EXCEPT ![t] = IdleThread]
    /\ reply' = Response("StartJob", TRUE, "started")
    /\ UNCHANGED <<engine, storeVars, runnerVars, loaded, outcome, stream, yielded>>

\* A faulty variant of stop_job: the token is signalled whatever job is active.
StopMatches_Any(job_id) == token # 0

\* stop_job: if self._active_job_id != job_id or self._cancel_token is None: return False
StopMatches(job_id) == active = job_id /\ token # 0

\* StopJob: stop_job(job_id) and its answer.
StopJob(job_id) ==
    /\ IF StopMatches(job_id)
       THEN /\ cancelled' = cancelled \cup {token}
            /\ reply' = Response("StopJob", TRUE, "stopping")
       ELSE /\ UNCHANGED cancelled
            /\ reply' = Response("StopJob", FALSE, "not_running")
    /\ UNCHANGED <<engine, storeVars, active, token, runs, loaded, rpc, worker,
                   outcome, stream, yielded>>

----------------------------------------------------------------------------
(* The job thread: _run_job, with the control flow of DiarBackend.diarize *)

\* The pipeline raised exc: the run's outcome is recorded and _run_job's
\* matching except clause is entered.
Raise(err) ==
    /\ worker' = [worker EXCEPT !.pc = "except_failed", !.err = err]
    /\ outcome' = [outcome EXCEPT ![worker.run].result = err]

\* _run_job: status = JobStatus(RUNNING); self._status_store.set(status)
RunJobRunning ==
    /\ worker.pc = "running"
    /\ StoreSet(Append(heap, Stamped(JobStatus(worker.job, "RUNNING", "", 0, {}), NowMs, 0)),
                Len(heap) + 1, worker.run)
    /\ worker' = [worker EXCEPT !.pc = IF engine = "asr" THEN "asr_prepare" ELSE "prepare",
                                 !.started = NowMs]
    /\ UNCHANGED <<engine, subscribers, taken, runnerVars, loaded, rpc, reply,
                   outcome, stream, yielded>>

\* diarize: ensure_output_dir (which may raise), then loaded = get_loaded(),
\* RuntimeError("No model loaded") when the slot is empty.
DiarizePrepare(dir_ok) ==
    /\ worker.pc = "prepare"
    /\ IF ~dir_ok THEN Raise("io error")
       ELSE IF loaded = NoModel THEN Raise("No model loaded")
       ELSE /\ worker' = [worker EXCEPT !.pc = "cb_get", !.cb = 0, !.model = loaded]
            /\ UNCHANGED outcome
    /\ UNCHANGED <<engine, storeVars, runnerVars, loaded, rpc, reply, stream, yielded>>

\* The end of the chunk the ASR loop has reached, in samples.
ChunkEnd == Min((worker.lo + worker.cur) * worker.chunk, worker.audio)

\* A faulty variant of the chunk progress: the share of the audio that remains.
AsrProgress_Remaining(end, len) == ProgressOne - (ProgressOne * end) \div len

\* transcribe: progress = min(1.0, max(0.0, float(end_s) / audio_seconds))
AsrProgress(end, len) == Min(ProgressOne, Max(0, (ProgressOne * end) \div len))

\* The progress a call site passes to progress_cb: 0.0 and 1.0 in diarize
\* (cb = 0 and cb = 1), the chunk's progress in transcribe (cb = 2).
CbValue == CASE worker.cb = 0 -> 0
             [] worker.cb = 1 -> ProgressOne
             [] worker.cb = 2 -> AsrProgress(ChunkEnd, worker.audio)

\* After progress_cb returns: diarize goes on (cb = 0) or returns (cb = 1),
\* transcribe goes to the next pair of its loop (cb = 2).
AfterCb == CASE worker.cb = 0 -> "ensure"
             [] worker.cb = 1 -> "return"
             [] worker.cb = 2 -> "asr_check"

\* progress_cb: status = self._status_store.get(job_id); if not status: return
CbGet ==
    /\ worker.pc = "cb_get"
    /\ worker' = IF StoreGet(worker.job) = 0
                 THEN [worker EXCEPT !.pc = AfterCb]
                 ELSE [worker EXCEPT !.pc = "cb_progress", !.st = StoreGet(worker.job)]
    /\ UNCHANGED <<engine, storeVars, runnerVars, loaded, rpc, reply, outcome,
                   stream, yielded>>

\* progress_cb: status.progress = progress, on the object the store holds.
CbProgress ==
    /\ worker.pc = "cb_progress"
    /\ heap' = [heap EXCEPT ![worker.st].progress = CbValue]
    /\ worker' = [worker EXCEPT !.pc = "cb_state"]
    /\ UNCHANGED <<engine, status, subscribers, recv, taken, pubs, runnerVars,
                   loaded, rpc, reply, outcome, stream, yielded>>

\* progress_cb: status.state = JobState.RUNNING
CbState ==
    /\ worker.pc = "cb_state"
    /\ heap' = [heap EXCEPT ![worker.st].state = "RUNNING"]
    /\ worker' = [worker EXCEPT !.pc = "cb_message"]
    /\ UNCHANGED <<engine, status, subscribers, recv, taken, pubs, runnerVars,
                   loaded, rpc, reply, outcome, stream, yielded>>

\* progress_cb: status.message = message ("COMPLETED" at the end of diarize,
\* "RUNNING" elsewhere)
CbMessage ==
    /\ worker.pc = "cb_message"
    /\ heap' = [heap EXCEPT ![worker.st].message =
                    IF worker.cb = 1 THEN "COMPLETED" ELSE "RUNNING"]
    /\ worker' = [worker EXCEPT !.pc = "cb_set"]
    /\ UNCHANGED <<engine, status, subscribers, recv, taken, pubs, runnerVars,
                   loaded, rpc, reply, outcome, stream, yielded>>

\* progress_cb: self._status_store.set(status), the same object again.
CbSet ==
    /\ worker.pc = "cb_set"
    /\ StoreSet(heap, worker.st, worker.run)
    /\ worker' = [worker EXCEPT !.pc = AfterCb, !.st = 0]
    /\ UNCHANGED <<engine, subscribers, taken, runnerVars, loaded, rpc, reply,
                   outcome, stream, yielded>>

\* diarize: the spec of the model it holds, with params.model as model_name
\* when that is set and differs.
JobSpec ==
    ModelSpec(worker.model.model_id,
              IF worker.params.model # None /\ worker.params.model # worker.model.model_name
              THEN worker.params.model ELSE worker.model.model_name)

\* diarize: loaded = self._model_manager.ensure_loaded(spec, params.hf_token)
DiarizeEnsure(can_open) ==
    /\ worker.pc = "ensure"
    /\ IF EnsureReloads(JobSpec, worker.params.hf_token)
       THEN IF LoaderRaises(JobSpec, can_open)
            THEN Raise("model error") /\ UNCHANGED loaded
            ELSE /\ loaded' = Loader(JobSpec, worker.params.hf_token)
                 /\ worker' = [worker EXCEPT !.pc = "diarize", !.model = loaded']
                 /\ UNCHANGED outcome
       ELSE /\ worker' = [worker EXCEPT !.pc = "diarize", !.model = loaded]
            /\ UNCHANGED <<loaded, outcome>>
    /\ UNCHANGED <<engine, storeVars, runnerVars, rpc, reply, stream, yielded>>

\* diarize: _get_audio_duration (never raises) and _run_diarization, which
\* returns the segments or raises.
DiarizeRun(model_ok) ==
    /\ worker.pc = "diarize"
    /\ IF model_ok
       THEN worker' = [worker EXCEPT !.pc = "cancel_check"] /\ UNCHANGED outcome
       ELSE Raise("model error")
    /\ UNCHANGED <<engine, storeVars, runnerVars, loaded, rpc, reply, stream, yielded>>

\* A faulty variant of the cancel check of diarize: it never raises.
DiarizeCancelCheck_Skips ==
    /\ worker.pc = "cancel_check"
    /\ worker' = [worker EXCEPT !.pc = "write"]
    /\ UNCHANGED <<engine, storeVars, runnerVars, loaded, rpc, reply, outcome, stream, yielded>>

\* diarize: if cancel_token and cancel_token.is_cancelled(): raise CancelledError
DiarizeCancelCheck ==
    /\ worker.pc = "cancel_check"
    /\ IF worker.token \in cancelled
       THEN /\ worker' = [worker EXCEPT !.pc = "except_cancelled"]
            /\ outcome' = [outcome EXCEPT ![worker.run].result = "cancelled"]
       ELSE /\ worker' = [worker EXCEPT !.pc = "write"]
            /\ UNCHANGED outcome
    /\ UNCHANGED <<engine, storeVars, runnerVars, loaded, rpc, reply, stream, yielded>>

\* diarize: the files it writes, in the order it writes them:
\* diarization.rttm only if params.output_format.lower() == "rttm".
OutputFiles ==
    IF worker.params.output_format = "rttm"
    THEN <<"diarization.json", "diarization.rttm", "result.json">>
    ELSE <<"diarization.json", "result.json">>

\* The file a raising write leaves incomplete: the last one opened.
Torn(files, created, io_ok) == IF io_ok \/ created = 0 THEN {} ELSE {files[created]}

\* diarize: opens and writes diarization.json, diarization.rttm and
\* result.json in turn. created files exist when a write raises (io_ok false;
\* open(path, "w") creates the file before json.dump runs), the last of them
\* torn. After the last write progress_cb(1.0, "COMPLETED") is called.
DiarizeWrite(created, io_ok) ==
    /\ worker.pc = "write"
    /\ io_ok => created = Len(OutputFiles)
    /\ LET out == [outcome EXCEPT ![worker.run].files =
                       @ \cup {OutputFiles[k] : k \in 1..created},
                                 ![worker.run].torn = Torn(OutputFiles, created, io_ok)]
       IN  IF io_ok
           THEN /\ worker' = [worker EXCEPT !.pc = "cb_get", !.cb = 1]
                /\ outcome' = out
           ELSE /\ worker' = [worker EXCEPT !.pc = "except_failed", !.err = "io error"]
                /\ outcome' = [out EXCEPT ![worker.run].result = "io error"]
    /\ UNCHANGED <<engine, storeVars, runnerVars, loaded, rpc, reply, stream, yielded>>

----------------------------------------------------------------------------
(* The job thread in the ASR engine: the control flow of AsrBackend.transcribe *)

\* A params object without the attributes chunk_len_s and chunk_batch_size,
\* which is what JobParams.from_kv and JobParams() construct (0: no attribute).
AsrFromKv == [chunk |-> 0, batch |-> 0]

\* The chunk and batch sizes of params objects that carry the attributes:
\* chunk_samples = int(max(1.0, chunk_len_s) * sr), batch_size = max(1, ...).
ChunkSizes == {1, 2}
BatchSizes == {1, 2}

\* The params transcribe is called with.
AsrParamSets == {AsrFromKv} \cup {[chunk |-> c, batch |-> b] : c \in ChunkSizes, b \in BatchSizes}

\* len(chunks): range(0, len(audio), chunk_samples) has one start per chunk.
NumChunks == (worker.audio + worker.chunk - 1) \div worker.chunk

\* len(batch) for batch = chunks[batch_start : batch_start + batch_size]
BatchLen == Min(worker.batch, NumChunks - worker.lo)

\* A faulty variant of is_cancelled: the event is never seen as set.
IsCancelled_Never(tok) == FALSE

\* cancel_token.is_cancelled()
IsCancelled(tok) == tok \in cancelled

\* transcribe: ensure_output_dir (which may raise), then loaded = get_loaded(),
\* RuntimeError("No model loaded") when the slot is empty.
AsrPrepare(dir_ok) ==
    /\ worker.pc = "asr_prepare"
    /\ IF ~dir_ok THEN Raise("io error")
       ELSE IF loaded = NoModel THEN Raise("No model loaded")
       ELSE /\ worker' = [worker EXCEPT !.pc = "load_audio", !.model = loaded]
            /\ UNCHANGED outcome
    /\ UNCHANGED <<engine, storeVars, runnerVars, loaded, rpc, reply, stream, yielded>>

\* transcribe: load_audio (which may raise) returns len samples; then
\* params.chunk_len_s and params.chunk_batch_size are read, AttributeError
\* when params has no such attribute; then the chunk list is built.
AsrLoadAudio(len, audio_ok) ==
    /\ worker.pc = "load_audio"
    /\ IF ~audio_ok THEN Raise("io error")
       ELSE IF worker.params.chunk = 0 THEN Raise("attribute error")
       ELSE /\ worker' = [worker EXCEPT !.pc = "recognize", !.audio = len,
                                        !.chunk = worker.params.chunk,
                                        !.batch = worker.params.batch,
                                        !.lo = 0, !.hi = 0, !.cur = 0]
            /\ UNCHANGED outcome
    /\ UNCHANGED <<engine, storeVars, runnerVars, loaded, rpc, reply, stream, yielded>>

\* transcribe: for batch_start in range(0, len(chunks), batch_size): the loop
\* ends after the last batch; otherwise asr.recognize(batch_audio) raises or
\* returns m results, and zip(batch, results, strict=False) pairs as many
\* chunks with results as the shorter of the two has.
AsrRecognize(m, model_ok) ==
    /\ worker.pc = "recognize"
    /\ IF worker.lo >= NumChunks
       THEN worker' = [worker EXCEPT !.pc = "asr_write"] /\ UNCHANGED outcome
       ELSE IF ~model_ok THEN Raise("model error")
       ELSE /\ worker' = [worker EXCEPT !.pc = "asr_check", !.hi = Min(m, BatchLen), !.cur = 0]
            /\ UNCHANGED outcome
    /\ UNCHANGED <<engine, storeVars, runnerVars, loaded, rpc, reply, stream, yielded>>

\* transcribe: the head of the inner loop. With no pair left the next batch
\* follows; otherwise the next pair is taken and
\* if cancel_token and cancel_token.is_cancelled(): raise CancelledError
AsrCheck ==
    /\ worker.pc = "asr_check"
    /\ IF worker.cur >= worker.hi
       THEN /\ worker' = [worker EXCEPT !.pc = "recognize", !.lo = @ + worker.batch,
                                        !.hi = 0, !.cur = 0]
            /\ UNCHANGED outcome
       ELSE IF IsCancelled(worker.token)
       THEN /\ worker' = [worker EXCEPT !.pc = "except_cancelled"]
            /\ outcome' = [outcome EXCEPT ![worker.run].result = "cancelled"]
       ELSE /\ worker' = [worker EXCEPT !.pc = "asr_result", !.cur = @ + 1]
            /\ UNCHANGED outcome
    /\ UNCHANGED <<engine, storeVars, runnerVars, loaded, rpc, reply, stream, yielded>>

\* transcribe: the body of the inner loop for one pair. A result without text
\* is skipped (continue); otherwise its words and segments are derived and
\* progress_cb(progress, "RUNNING") is called (audio_seconds > 0 as there is a
\* chunk). late counts the calls made with the token already signalled.
AsrResult(has_text) ==
    /\ worker.pc = "asr_result"
    /\ IF has_text
       THEN /\ worker' = [worker EXCEPT !.pc = "cb_get", !.cb = 2]
            /\ outcome' = [outcome EXCEPT ![worker.run].late =
                               IF worker.token \in cancelled THEN @ + 1 ELSE @]
       ELSE /\ worker' = [worker EXCEPT !.pc = "asr_check"]
            /\ UNCHANGED outcome
    /\ UNCHANGED <<engine, storeVars, runnerVars, loaded, rpc, reply, stream, yielded>>

\* transcribe: the files it writes, in the order it writes them
\* (include_segments and include_words are true, the defaults of JobParams).
AsrOutputFiles == <<"transcript.txt", "segments.jsonl", "words.jsonl", "result.json">>

\* transcribe: merges short segments, then opens and writes transcript.txt,
\* segments.jsonl, words.jsonl and result.json in turn, and returns. created
\* files exist when a write raises (io_ok false).
AsrWrite(created, io_ok) ==
    /\ worker.pc = "asr_write"
    /\ io_ok => created = Len(AsrOutputFiles)
    /\ LET out == [outcome EXCEPT ![worker.run].files =
                       @ \cup {AsrOutputFiles[k] : k \in 1..created},
                                 ![worker.run].torn = Torn(AsrOutputFiles, created, io_ok)]
       IN  IF io_ok
           THEN /\ worker' = [worker EXCEPT !.pc = "return"]
                /\ outcome' = out
           ELSE /\ worker' = [worker EXCEPT !.pc = "except_failed", !.err = "io error"]
                /\ outcome' = [out EXCEPT ![worker.run].result = "io error"]
    /\ UNCHANGED <<engine, storeVars, runnerVars, loaded, rpc, reply, stream, yielded>>

AsrStep ==
    \/ \E dir_ok \in BOOLEAN : AsrPrepare(dir_ok)
    \/ \E len \in 0..MaxAudio, audio_ok \in BOOLEAN : AsrLoadAudio(len, audio_ok)
    \/ \E m \in 0..2, model_ok \in BOOLEAN : AsrRecognize(m, model_ok)
    \/ AsrCheck
    \/ \E has_text \in BOOLEAN : AsrResult(has_text)
    \/ \E created \in 0..Len(AsrOutputFiles), io_ok \in BOOLEAN : AsrWrite(created, io_ok)

----------------------------------------------------------------------------
(* The job thread: the end of _run_job *)

\* A faulty variant of the terminal status of a cancelled run: published as FAILED.
CancelledStatus_Failed(job_id) ==
    Stamped(JobStatus(job_id, "FAILED", "cancelled", 0, {}), worker.started, NowMs)

\* DiarizeResult.rttm_path: the path of diarization.rttm when it was written.
RttmPath == IF worker.params.output_format = "rttm" THEN "diarization.rttm" ELSE None

\* _run_job: outputs={"diarization": result.diarization_path,
\* "rttm": result.rttm_path or "", "result": result.result_path}. The ASR
\* runner names the files transcribe returns.
CompletedOutputs ==
    IF engine = "asr"
    THEN {<<"transcript", "transcript.txt">>, <<"segments", "segments.jsonl">>,
          <<"words", "words.jsonl">>, <<"result", "result.json">>}
    ELSE {<<"diarization", "diarization.json">>,
          <<"rttm", IF RttmPath = None THEN "" ELSE RttmPath>>,
          <<"result", "result.json">>}

\* _run_job: the status built in each branch of the try statement, with
\* started_unix_ms=status.started_unix_ms, finished_unix_ms=_now_ms().
CompletedStatus(job_id) ==
    Stamped(JobStatus(job_id, "COMPLETED", "", ProgressOne, CompletedOutputs),
            worker.started, NowMs)
CancelledStatus(job_id) ==
    Stamped(JobStatus(job_id, "CANCELLED", "cancelled", 0, {}), worker.started, NowMs)
FailedStatus(job_id, err) ==
    Stamped(JobStatus(job_id, "FAILED", err, 0, {}), worker.started, NowMs)

\* _run_job: diarize returned; COMPLETED is published.
RunJobCompleted ==
    /\ worker.pc = "return"
    /\ outcome' = [outcome EXCEPT ![worker.run].result = "ok"]
    /\ StoreSet(Append(heap, CompletedStatus(worker.job)), Len(heap) + 1, worker.run)
    /\ worker' = [worker EXCEPT !.pc = "finally"]
    /\ UNCHANGED <<engine, subscribers, taken, runnerVars, loaded, rpc, reply,
                   stream, yielded>>

\* _run_job: except CancelledError
RunJobCancelled ==
    /\ worker.pc = "except_cancelled"
    /\ StoreSet(Append(heap, CancelledStatus(worker.job)), Len(heap) + 1, worker.run)
    /\ worker' = [worker EXCEPT !.pc = "finally"]
    /\ UNCHANGED <<engine, subscribers, taken, runnerVars, loaded, rpc, reply,
                   outcome, stream, yielded>>

\* _run_job: except Exception as exc
RunJobFailed ==
    /\ worker.pc = "except_failed"
    /\ StoreSet(Append(heap, FailedStatus(worker.job, worker.err)), Len(heap) + 1,
                worker.run)
    /\ worker' = [worker EXCEPT !.pc = "finally"]
    /\ UNCHANGED <<engine, subscribers, taken, runnerVars, loaded, rpc, reply,
                   outcome, stream, yielded>>

\* A faulty variant of the finally clause: the slot is cleared only after success.
RunJobFinally_OnSuccess ==
    /\ worker.pc = "finally"
    /\ outcome[worker.run].result = "ok"
    /\ active' = None
    /\ token' = 0
    /\ worker' = NoWorker
    /\ UNCHANGED <<engine, storeVars, cancelled, runs, loaded, rpc, reply,
                   outcome, stream, yielded>>

\* _run_job: finally, under the lock: the slot and the token are cleared,
\* and the thread ends.
RunJobFinally ==
    /\ worker.pc = "finally"
    /\ active' = None
    /\ token' = 0
    /\ worker' = NoWorker
    /\ UNCHANGED <<engine, storeVars, cancelled, runs, loaded, rpc, reply,
                   outcome, stream, yielded>>

WorkerStep ==
    \/ RunJobRunning
    \/ \E dir_ok \in BOOLEAN : DiarizePrepare(dir_ok)
    \/ CbGet \/ CbProgress \/ CbState \/ CbMessage \/ CbSet
    \/ \E can_open \in BOOLEAN : DiarizeEnsure(can_open)
    \/ \E model_ok \in BOOLEAN : DiarizeRun(model_ok)
    \/ DiarizeCancelCheck
    \/ /\ worker.pc = "write"
       /\ \E created \in 0..Len(OutputFiles), io_ok \in BOOLEAN : DiarizeWrite(created, io_ok)
    \/ RunJobCompleted \/ RunJobCancelled \/ RunJobFailed
    \/ RunJobFinally

----------------------------------------------------------------------------
(* StreamJobStatus *)

\* since and cached are history: the number of publications made, and the
\* status stored for the job, when the stream subscribed.
IdleStream == [pc |-> "idle", job |-> None, active |-> TRUE, since |-> 0, cached |-> 0]

\* StreamJobStatus: q = self._status_store.subscribe(request.job_id)
StreamOpen(s, job_id) ==
    /\ stream[s].pc = "idle"
    /\ StoreSubscribe(s, job_id)
    /\ stream' = [stream EXCEPT ![s] = [pc |-> "waiting", job |-> job_id, active |-> TRUE,
                                        since |-> Len(pubs), cached |-> status[job_id]]]
    /\ UNCHANGED <<engine, heap, status, taken, pubs, runnerVars, loaded, rpc,
                   reply, worker, outcome, yielded>>

\* A faulty variant of the stream loop: it goes on after a terminal status.
StreamEnds_Never(st) == FALSE

\* StreamJobStatus: if status.state in {COMPLETED, FAILED, CANCELLED}: break
StreamEnds(st) == st.state \in Terminal

\* StreamJobStatus: q.get() returned a status; it is converted as it is now
\* (_status_to_pb) and yielded; after a terminal one the loop ends. When the
\* client has gone the yield closes the generator instead.
StreamNext(s) ==
    /\ stream[s].pc = "waiting"
    /\ taken[s] < Len(recv[s])
    /\ taken' = [taken EXCEPT ![s] = @ + 1]
    /\ LET st == heap[recv[s][taken[s] + 1].ref] IN
       IF stream[s].active
       THEN /\ yielded' = [yielded EXCEPT ![s] = Append(@, st.state)]
            /\ stream' = [stream EXCEPT ![s].pc = IF StreamEnds(st) THEN "closing" ELSE @]
       ELSE /\ stream' = [stream EXCEPT ![s].pc = "closing"]
            /\ UNCHANGED yielded
    /\ UNCHANGED <<engine, heap, status, subscribers, recv, pubs, runnerVars,
                   loaded, rpc, reply, worker, outcome>>

\* StreamJobStatus: queue.Empty after the 1 s wait and the context is no
\* longer active: break. (With an active context the loop continues.)
StreamTimeout(s) ==
    /\ stream[s].pc = "waiting"
    /\ taken[s] = Len(recv[s])
    /\ ~stream[s].active
    /\ stream' = [stream EXCEPT ![s].pc = "closing"]
    /\ UNCHANGED <<engine, storeVars, runnerVars, loaded, rpc, reply, worker,
                   outcome, yielded>>

\* A faulty variant of the client's cancellation: it also signals the token.
ClientCancel_StopsJob(s) ==
    /\ stream[s].pc = "waiting"
    /\ stream[s].active
    /\ stream' = [stream EXCEPT ![s].active = FALSE]
    /\ cancelled' = IF token # 0 THEN cancelled \cup {token} ELSE cancelled
    /\ UNCHANGED <<engine, storeVars, active, token, runs, loaded, rpc, reply, worker,
                   outcome, yielded>>

\* The client cancels the RPC, or its context ends otherwise.
ClientCancel(s) ==
    /\ stream[s].pc = "waiting"
    /\ stream[s].active
    /\ stream' = [stream EXCEPT ![s].active = FALSE]
    /\ UNCHANGED <<engine, storeVars, runnerVars, loaded, rpc, reply, worker,
                   outcome, yielded>>

\* StreamJobStatus: finally: self._status_store.unsubscribe(request.job_id, q)
StreamClose(s) ==
    /\ stream[s].pc = "closing"
    /\ StoreUnsubscribe(s, stream[s].job)
    /\ stream' = [stream EXCEPT ![s].pc = "done"]
    /\ UNCHANGED <<engine, heap, status, recv, taken, pubs, runnerVars, loaded,
                   rpc, reply, worker, outcome, yielded>>

StreamStep(s) == StreamNext(s) \/ StreamTimeout(s) \/ StreamClose(s)

----------------------------------------------------------------------------
(* The diarization engine *)

\* serve(): the state after construction, with the given store implementation
\* and model slot.
InitWith(e, m) ==
    /\ engine = e
    /\ heap = <<>>
    /\ status = [j \in JobIds |-> 0]
    /\ subscribers = [j \in JobIds |-> <<>>]
    /\ recv = [s \in Sinks |-> <<>>]
    /\ taken = [s \in Sinks |-> 0]
    /\ pubs = <<>>
    /\ active = None
    /\ token = 0
    /\ cancelled = {}
    /\ runs = 0
    /\ loaded = m
    /\ rpc = [t \in Threads |-> IdleThread]
    /\ reply = NoReply
    /\ worker = NoWorker
    /\ outcome = <<>>
    /\ stream = [s \in Sinks |-> IdleStream]
    /\ yielded = [s \in Sinks |-> <<>>]

\* The specs clients load in the engine specification: a supported model and
\* one whose model_id the loader does not know.
LoadSpecs == {ModelSpec("pyannote", "m1"), ModelSpec("whisper", "m1")}

Init == InitWith("diar", NoModel)

\* The steps a pool thread takes inside StartJob once the call is in start_job.
RpcContinue(t) == StartJobLocked(t) \/ StartJobPublish(t) \/ StartJobSpawn(t)

\* The engine without status streams: any client calls LoadModel, UnloadModel,
\* StartJob and StopJob, on two pool threads, and the job thread runs.
Next ==
    \/ \E spec \in LoadSpecs, can_open \in BOOLEAN : LoadModel(spec, can_open)
    \/ \E model_id \in RequestModelIds : UnloadModel(model_id)
    \/ \E t \in Threads, job_id \in Jobs, model_id \in RequestModelIds, params \in ParamSets :
          StartJobCheck(t, job_id, model_id, params)
    \/ \E t \in Threads : RpcContinue(t)
    \/ \E job_id \in Jobs : StopJob(job_id)
    \/ WorkerStep

Spec == Init /\ [][Next]_vars

\* The engine with status streams: a model is resident, one client starts and
\* stops jobs, and StreamJobStatus calls come and go.
StreamSinks == {"s1"}
StreamJobs == {"a"}

StreamInit == InitWith("diar", Loader(ModelSpec("pyannote", "m1"), None))

StreamSpecNext ==
    \/ \E job_id \in StreamJobs, params \in ParamSets : StartJobCheck("t1", job_id, "", params)
    \/ RpcContinue("t1")
    \/ \E job_id \in StreamJobs : StopJob(job_id)
    \/ WorkerStep
    \/ \E s \in StreamSinks, job_id \in StreamJobs : StreamOpen(s, job_id)
    \/ \E s \in StreamSinks : StreamStep(s)
    \/ \E s \in StreamSinks : ClientCancel(s)

StreamSpec == StreamInit /\ [][StreamSpecNext]_vars

\* The ASR engine's loader on success: the LoadedModel it returns (no token).
AsrLoader(spec) == [model_id |-> spec.model_id, model_name |-> spec.model_name, token |-> None]

\* Either engine with a resident model: one client starts a job with job id
\* "a" and calls StopJob at any time, and the job thread runs the engine's
\* pipeline.
PipelineParams == IF engine = "asr" THEN AsrParamSets ELSE ParamSets

PipelineInit ==
    \/ InitWith("asr", AsrLoader(ModelSpec("parakeet", "m1")))
    \/ InitWith("diar", Loader(ModelSpec("pyannote", "m1"), None))

PipelineNext ==
    \/ \E params \in PipelineParams : runs = 0 /\ StartJobCheck("t1", "a", "", params)
    \/ RpcContinue("t1")
    \/ StopJob("a")
    \/ WorkerStep
    \/ AsrStep

PipelineSpec == PipelineInit /\ [][PipelineNext]_vars

\* The diarization service seen by one client: a model is resident, the
\* client starts jobs with and without an hf_token under job ids that include
\* the empty one, stops them, unloads the model and asks for the engine info.
ServiceJobs == {"", "a"}

ServiceNext ==
    \/ \E job_id \in ServiceJobs, params \in TokenParamSets :
          StartJobCheck("t1", job_id, "", params)
    \/ RpcContinue("t1")
    \/ \E job_id \in ServiceJobs : StopJob(job_id)
    \/ UnloadModel("")
    \/ GetEngineInfo
    \/ WorkerStep

ServiceSpec == StreamInit /\ [][ServiceNext]_vars

\* The diarization service seen by one client that sends one StartJob with
\* any job id and any params map, and may stop the job; a model is resident.
RequestNext ==
    \/ \E job_id \in ServiceJobs, kv \in KvMaps :
          runs = 0 /\ StartJobRequest("t1", job_id, "", kv)
    \/ RpcContinue("t1")
    \/ \E job_id \in ServiceJobs : StopJob(job_id)
    \/ WorkerStep

RequestSpec == StreamInit /\ [][RequestNext]_vars

\* The status store of either engine on its own: any caller publishes
\* statuses, StreamJobStatus calls subscribe, consume and unsubscribe, and the
\* ASR store is reset.
StorePublish(job_id, state) ==
    /\ Len(pubs) < MaxSets
    /\ StoreSet(Append(heap, JobStatus(job_id, state, "", 0, {})), Len(heap) + 1, 0)
    /\ UNCHANGED <<engine, subscribers, taken, runnerVars, loaded, rpc, reply, worker,
                   outcome, stream, yielded>>

StoreReset ==
    /\ engine = "asr"
    /\ status # [j \in JobIds |-> 0]
    /\ AsrReset
    /\ UNCHANGED <<engine, heap, recv, taken, pubs, runnerVars, loaded, rpc, reply,
                   worker, outcome, stream, yielded>>

StoreInit == \E e \in {"asr", "diar"} : InitWith(e, NoModel)

StoreNext ==
    \/ \E job_id \in Jobs, state \in {"RUNNING", "COMPLETED"} : StorePublish(job_id, state)
    \/ StoreReset
    \/ \E s \in Sinks, job_id \in Jobs : StreamOpen(s, job_id)
    \/ \E s \in Sinks : StreamStep(s)
    \/ \E s \in Sinks : ClientCancel(s)

StoreSpec == StoreInit /\ [][StoreNext]_vars

\* Threads that can run are scheduled: the job thread, the pool threads inside
\* a handler and the stream loops all make progress. Nothing obliges a client
\* to send a request or to cancel one.
RunnerFairness ==
    /\ WF_vars(WorkerStep)
    /\ \A t \in Threads : WF_vars(RpcContinue(t))

StreamFairness == \A s \in Sinks : WF_vars(StreamStep(s))

FairSpec == Spec /\ RunnerFairness
FairStreamSpec == StreamSpec /\ RunnerFairness /\ StreamFairness
FairPipelineSpec == PipelineSpec /\ RunnerFairness /\ WF_vars(AsrStep)

\* The diarization engine with subscribers that need not drain their queues:
\* one job is started and may be stopped, two StreamJobStatus calls subscribe
\* to it (the second may be cancelled by its client), and only the runner's threads are scheduled fairly: nothing obliges
\* a stream loop to take a status from its queue.
SlowSubscriberNext ==
    \/ \E params \in ParamSets : runs = 0 /\ StartJobCheck("t1", "a", "", params)
    \/ RpcContinue("t1")
    \/ StopJob("a")
    \/ WorkerStep
    \/ \E s \in Sinks : StreamOpen(s, "a")
    \/ \E s \in Sinks : StreamStep(s)
    \/ ClientCancel("s2")

SlowSubscriberSpec == StreamInit /\ [][SlowSubscriberNext]_vars /\ RunnerFairness

----------------------------------------------------------------------------
(* ASR post-processing: texts, Segment and merge_short_segments *)

\* A text is the sequence of its characters; times are whole ticks of 0.05 s.

RECURSIVE LStrip(_)
\* text.lstrip()
LStrip(text) == IF text # <<>> /\ Head(text) = " " THEN LStrip(Tail(text)) ELSE text

RECURSIVE RStrip(_)
\* text.rstrip()
RStrip(text) ==
    IF text # <<>> /\ text[Len(text)] = " " THEN RStrip(SubSeq(text, 1, Len(text) - 1)) ELSE text

\* text.strip()
Strip(text) == RStrip(LStrip(text))

RECURSIVE Split(_)
\* text.split(): the maximal runs of characters other than the space
Split(text) ==
    LET t == LStrip(text)
    IN  IF t = <<>> THEN <<>>
        ELSE LET n == CHOOSE k \in 1..(Len(t) + 1) :
                          /\ \A i \in 1..(k - 1) : t[i] # " "
                          /\ k = Len(t) + 1 \/ t[k] = " "
             IN  <<SubSeq(t, 1, n - 1)>> \o Split(SubSeq(t, n, Len(t)))

RECURSIVE Join(_)
\* " ".join(words)
Join(words) ==
    IF words = <<>> THEN <<>>
    ELSE IF Len(words) = 1 THEN words[1]
    ELSE words[1] \o <<" ">> \o Join(Tail(words))

\* Segment(text, start, end)
Segment(text, start, end) == [text |-> text, start |-> start, end |-> end]

\* Segment.duration, for a segment that has both times
Duration(seg) == Max(0, seg.end - seg.start)

\* A faulty variant of the fold: the predecessor keeps its own end.
Fold_KeepsEnd(prev, seg) ==
    Segment(Strip(prev.text \o <<" ">> \o seg.text), prev.start, prev.end)

\* merge_short_segments: prev.text = f"{prev.text} {seg.text}".strip();
\* prev.end = seg.end
Fold(prev, seg) ==
    Segment(Strip(prev.text \o <<" ">> \o seg.text), prev.start, seg.end)

RECURSIVE MergeFrom(_, _, _, _, _)
\* merge_short_segments: the loop from the i-th segment on, merged so far;
\* prev is the last element of merged, None when merged is empty.
MergeFrom(segments, i, merged, attach_threshold_s, attach_max_words) ==
    IF i > Len(segments) THEN merged
    ELSE LET text == Strip(segments[i].text)
             seg == Segment(text, segments[i].start, segments[i].end)
             attach_by_duration == Duration(seg) < attach_threshold_s
             attach_by_words == Len(Split(text)) <= attach_max_words
             next == IF text = <<>> THEN merged
                     ELSE IF merged # <<>> /\ (attach_by_duration \/ attach_by_words)
                     THEN [merged EXCEPT ![Len(merged)] = Fold(merged[Len(merged)], seg)]
                     ELSE Append(merged, seg)
         IN  MergeFrom(segments, i + 1, next, attach_threshold_s, attach_max_words)

\* merge_short_segments(segments, attach_threshold_s, attach_max_words)
MergeShortSegments(segments, attach_threshold_s, attach_max_words) ==
    MergeFrom(segments, 1, <<>>, attach_threshold_s, attach_max_words)

\* The segments merge_short_segments is called with: texts of zero, one or
\* three words, with and without a leading blank, over spans of 0.5 s,
\* 0.1 s and 1.4 s, in the order of their starts.
MergeTexts ==
    {<<>>, <<"a">>, <<"b">>, <<" ", "b">>, <<"c", " ", "d", " ", "e">>}
MergeSpans == {<<0, 10>>, <<10, 12>>, <<12, 40>>}
MergeSegments == {Segment(text, span[1], span[2]) : text \in MergeTexts, span \in MergeSpans}
MaxSegments == 3
SegmentLists ==
    {segments \in UNION {[1..n -> MergeSegments] : n \in 0..MaxSegments} :
        \A n \in 1..(Len(segments) - 1) : segments[n].start <= segments[n + 1].start}

\* The threshold of 0.25 s, and the word counts 1 and 2.
AttachThresholds == {5}
AttachMaxWords == {1, 2}

\* A call merge_short_segments(segments, attach_threshold_s, attach_max_words)
\* by a caller that keeps the argument and the result.
MergeCall(segments, attach_threshold_s, attach_max_words) ==
    /\ worker.pc = "none"
    /\ worker' = [pc |-> "merged", segments |-> segments,
                  attach_threshold_s |-> attach_threshold_s,
                  attach_max_words |-> attach_max_words,
                  merged |-> MergeShortSegments(segments, attach_threshold_s,
                                                attach_max_words)]
    /\ UNCHANGED <<engine, storeVars, runnerVars, loaded, rpc, reply, outcome, stream, yielded>>

MergeNext ==
    \E segments \in SegmentLists, attach_threshold_s \in AttachThresholds,
       attach_max_words \in AttachMaxWords :
        MergeCall(segments, attach_threshold_s, attach_max_words)

MergeSpec == InitWith("asr", NoModel) /\ [][MergeNext]_vars

----------------------------------------------------------------------------
(* ASR timestamps: words of a chunk, and their split into segments *)

\* A word with its time bounds: {"word": w, "start": ..., "end": ...}
Word(word, start, end) == [word |-> word, start |-> start, end |-> end]

RECURSIVE SumLen(_)
\* sum(lengths) for lengths = [max(1, len(w)) for w in words]
SumLen(words) == IF words = <<>> THEN 0 ELSE Max(1, Len(Head(words))) + SumLen(Tail(words))

RECURSIVE Proportional(_, _, _, _)
\* word_timestamps_from_segment: the loop over the words from time t on, each
\* word taking dur * (L / total), rounded down to the tick.
Proportional(words, t, dur, total) ==
    IF words = <<>> THEN <<>>
    ELSE LET w_dur == (dur * Max(1, Len(Head(words)))) \div total
         IN  <<Word(Head(words), t, t + w_dur)>>
                 \o Proportional(Tail(words), t + w_dur, dur, total)

\* word_timestamps_from_segment: out[-1]["end"] = end
ClampLast(out, end) == [out EXCEPT ![Len(out)].end = end]

\* word_timestamps_from_segment(text, start, end), for times that are not None
WordTimestampsFromSegment(text, start, end) ==
    LET words == Split(Strip(text))
    IN  IF end <= start \/ words = <<>> THEN <<>>
        ELSE ClampLast(Proportional(words, start, end - start, SumLen(words)), end)

RECURSIVE TokenWords(_, _, _, _, _, _)
\* word_timestamps_from_tokens: the loop over zip(tokens, timestamps) from the
\* i-th pair on; current_start is None only before the first pair.
TokenWords(tokens, timestamps, i, words, current, current_start) ==
    IF i > Len(tokens)
    THEN [words |-> words, current |-> current, current_start |-> current_start]
    ELSE LET t == timestamps[i]
             tok == tokens[i]
             start == IF i = 1 THEN t ELSE current_start
         IN  IF tok # <<>> /\ Head(tok) = " " /\ current # <<>>
             THEN TokenWords(tokens, timestamps, i + 1,
                             IF Strip(current) # <<>>
                             THEN Append(words, Word(Strip(current), start, t))
                             ELSE words,
                             LStrip(tok), t)
             ELSE TokenWords(tokens, timestamps, i + 1, words, current \o tok, start)

\* word_timestamps_from_tokens(tokens, timestamps, segment_start, segment_end);
\* None and the empty list are the same to it.
WordTimestampsFromTokens(tokens, timestamps, segment_start, segment_end) ==
    IF tokens = <<>> \/ timestamps = <<>> \/ Len(tokens) # Len(timestamps) THEN <<>>
    ELSE LET r == TokenWords(tokens, timestamps, 1, <<>>, <<>>, 0)
             word == Strip(r.current)
             end == IF segment_end > r.current_start THEN segment_end ELSE r.current_start
         IN  IF word # <<>> THEN Append(r.words, Word(word, r.current_start, end))
             ELSE r.words

\* split_segments_from_words: the default delimiters
Delimiters == {".", "!", "?"}

\* split_segments_from_words: the dict appended for the words gathered
LocalSegment(cur_words, cur_start, cur_end) ==
    [text |-> Join([n \in 1..Len(cur_words) |-> cur_words[n].word]),
     start |-> cur_start, end |-> cur_end, words |-> cur_words]

RECURSIVE SplitFrom(_, _, _, _, _, _, _)
\* split_segments_from_words: the loop from the idx-th word on (gap_s = 0
\* stands for None).
SplitFrom(words, idx, gap_s, segments, cur_words, cur_start, cur_end) ==
    IF idx > Len(words)
    THEN IF cur_words # <<>>
         THEN Append(segments, LocalSegment(cur_words, cur_start, cur_end))
         ELSE segments
    ELSE LET w == words[idx]
             gap == /\ gap_s # 0
                    /\ cur_words # <<>>
                    /\ w.start - words[idx - 1].end >= gap_s
             segments1 == IF gap
                          THEN Append(segments, LocalSegment(cur_words, cur_start, cur_end))
                          ELSE segments
             cur_words1 == IF gap THEN <<>> ELSE cur_words
             cur_start1 == IF cur_words1 = <<>> THEN w.start ELSE cur_start
             cur_words2 == Append(cur_words1, w)
             delimited == w.word # <<>> /\ w.word[Len(w.word)] \in Delimiters
         IN  SplitFrom(words, idx + 1, gap_s,
                       IF delimited
                       THEN Append(segments1, LocalSegment(cur_words2, cur_start1, w.end))
                       ELSE segments1,
                       IF delimited THEN <<>> ELSE cur_words2,
                       cur_start1, w.end)

\* split_segments_from_words(words, gap_s=gap_s)
SplitSegmentsFromWords(words, gap_s) ==
    IF words = <<>> THEN <<>>
    ELSE SplitFrom(words, 1, gap_s, <<>>, <<>>, words[1].start, words[1].end)

----------------------------------------------------------------------------
(* AsrBackend.transcribe: the segments and word entries of a job that runs to its end *)

\* chunk_len_s = max(1.0, ...): one second, in ticks
ChunkTicks == 20
MaxChunks == 2

RECURSIVE Concat(_)
Concat(tokens) == IF tokens = <<>> THEN <<>> ELSE Head(tokens) \o Concat(Tail(tokens))

\* What asr.recognize returns for a chunk: a string (no tokens), or an object
\* with text, tokens and timestamps, the timestamps relative to the chunk and
\* in order of time but not always as many as the tokens.
Transcripts == {<<>>, <<"a">>, <<"a", ".", " ", "b", " ", "c", ".">>}
TokenLists ==
    {<< <<" ", "a">>, <<" ", "b", ".">> >>,
     << <<" ", "a">>, <<"b">>, <<" ", "c">> >>}
TimestampLists ==
    {ts \in UNION {[1..n -> {2, 6}] : n \in 1..3} :
        \A n \in 1..(Len(ts) - 1) : ts[n] <= ts[n + 1]}
Results ==
    {[text |-> text, tokens |-> <<>>, timestamps |-> <<>>] : text \in Transcripts}
    \cup {[text |-> Strip(Concat(tokens)), tokens |-> tokens, timestamps |-> timestamps] :
             tokens \in TokenLists, timestamps \in TimestampLists}

\* The params of the jobs: objects with include_segments and include_words
\* set, segment_gap_s None (0) or 0.15 s, with and without the merge, which
\* attaches below 0.25 s or up to one or two words.
TranscribeParams ==
    [segment_gap_s : {0, 3}, merge_short_segments : BOOLEAN,
     merge_attach_threshold_s : {5}, merge_attach_max_words : {1, 2}]

SeqMin(s) == CHOOSE x \in Range(s) : \A y \in Range(s) : x <= y
SeqMax(s) == CHOOSE x \in Range(s) : \A y \in Range(s) : x >= y

\* transcribe: seg_start and seg_end of a chunk, from the chunk's bounds or
\* from the extreme timestamps
SegStart(res, start_s) ==
    IF res.tokens # <<>> /\ res.timestamps # <<>> THEN start_s + SeqMin(res.timestamps)
    ELSE start_s
SegEnd(res, start_s, end_s) ==
    IF res.tokens # <<>> /\ res.timestamps # <<>> THEN start_s + SeqMax(res.timestamps)
    ELSE end_s

\* transcribe: words_local of a chunk with text
WordsLocal(res, start_s, end_s) ==
    LET seg_start == SegStart(res, start_s)
        seg_end == SegEnd(res, start_s, end_s)
        from_tokens == IF res.tokens # <<>> /\ res.timestamps # <<>>
                       THEN WordTimestampsFromTokens(res.tokens, res.timestamps,
                                                     seg_start, seg_end)
                       ELSE <<>>
    IN  IF from_tokens = <<>>
        THEN WordTimestampsFromSegment(Strip(res.text), seg_start, seg_end)
        ELSE from_tokens

\* transcribe: segments_local of a chunk with text
SegmentsLocal(res, start_s, end_s, gap_s) ==
    LET words_local == WordsLocal(res, start_s, end_s)
        split == SplitSegmentsFromWords(words_local, gap_s)
    IN  IF split = <<>>
        THEN <<[text |-> Strip(res.text), start |-> SegStart(res, start_s),
                end |-> SegEnd(res, start_s, end_s), words |-> words_local]>>
        ELSE split

\* transcribe: the records appended to word_entries for one segment, numbered
\* segment_index, when word_entries holds base records
EntriesOf(seg, segment_index, base) ==
    [wi \in 1..Len(seg.words) |->
        [global_word_index |-> base + wi, segment_index |-> segment_index,
         word_index_in_segment |-> wi, word |-> seg.words[wi].word,
         start |-> seg.words[wi].start, end |-> seg.words[wi].end]]

RECURSIVE WordEntries(_, _, _, _)
\* transcribe: word_entries after the loop over segments_local from the k-th on
WordEntries(segments_local, k, word_entries, segment_index) ==
    IF k > Len(segments_local) THEN word_entries
    ELSE WordEntries(segments_local, k + 1,
                     word_entries \o EntriesOf(segments_local[k], segment_index + 1,
                                               Len(word_entries)),
                     segment_index + 1)

\* transcribe begins: the locals before the loop over the batches, for an
\* audio of n chunks
TranscribeBegin(params, n) ==
    /\ worker.pc = "none"
    /\ worker' = [pc |-> "chunks", params |-> params, n |-> n, cur |-> 0,
                  segments |-> <<>>, word_entries |-> <<>>, segment_index |-> 0,
                  segments_jsonl |-> <<>>, words_jsonl |-> <<>>]
    /\ UNCHANGED <<engine, storeVars, runnerVars, loaded, rpc, reply, outcome, stream, yielded>>

\* transcribe: the body of the loop for the next chunk and its result res
TranscribeChunk(res) ==
    /\ worker.pc = "chunks"
    /\ worker.cur < worker.n
    /\ LET start_s == worker.cur * ChunkTicks
           end_s == start_s + ChunkTicks
           segments_local == SegmentsLocal(res, start_s, end_s, worker.params.segment_gap_s)
       IN  IF Strip(res.text) = <<>>
           THEN worker' = [worker EXCEPT !.cur = @ + 1]
           ELSE worker' =
                   [worker EXCEPT
                       !.cur = @ + 1,
                       !.segments = @ \o [k \in 1..Len(segments_local) |->
                                             Segment(segments_local[k].text,
                                                     segments_local[k].start,
                                                     segments_local[k].end)],
                       !.word_entries = WordEntries(segments_local, 1, @,
                                                    worker.segment_index),
                       !.segment_index = @ + Len(segments_local)]
    /\ UNCHANGED <<engine, storeVars, runnerVars, loaded, rpc, reply, outcome, stream, yielded>>

\* transcribe: after the last batch, merge_short_segments if the params ask
TranscribeMerge ==
    /\ worker.pc = "chunks"
    /\ worker.cur = worker.n
    /\ worker' = [worker EXCEPT
                     !.pc = "write",
                     !.segments = IF worker.params.merge_short_segments
                                  THEN MergeShortSegments(@,
                                           worker.params.merge_attach_threshold_s,
                                           worker.params.merge_attach_max_words)
                                  ELSE @]
    /\ UNCHANGED <<engine, storeVars, runnerVars, loaded, rpc, reply, outcome, stream, yielded>>

\* write_segments_jsonl: one record per segment, numbered from 1
SegmentsJsonl(segments) ==
    [idx \in 1..Len(segments) |->
        [segment_index |-> idx, start |-> segments[idx].start,
         end |-> segments[idx].end, text |-> segments[idx].text]]

\* transcribe: write_segments_jsonl(segments) and
\* write_words_jsonl_from_entries(word_entries)
TranscribeWrite ==
    /\ worker.pc = "write"
    /\ worker' = [worker EXCEPT !.pc = "written",
                                !.segments_jsonl = SegmentsJsonl(worker.segments),
                                !.words_jsonl = worker.word_entries]
    /\ UNCHANGED <<engine, storeVars, runnerVars, loaded, rpc, reply, outcome, stream, yielded>>

TranscribeNext ==
    \/ \E params \in TranscribeParams, n \in 1..MaxChunks : TranscribeBegin(params, n)
    \/ \E res \in Results : TranscribeChunk(res)
    \/ TranscribeMerge
    \/ TranscribeWrite

TranscribeSpec == InitWith("asr", AsrLoader(ModelSpec("parakeet", "m1"))) /\ [][TranscribeNext]_vars

----------------------------------------------------------------------------
(* Diarization: _sortformer_segments_to_dicts *)

\* Python values of the model's output; times are whole half seconds, texts
\* and speakers are sequences of characters. A dict or an object names the
\* keys or attributes it has; the fields of the others are not read.
PyFloat(value) == [kind |-> "float", value |-> value]
PyStr(text) == [kind |-> "str", text |-> text]
PyList(elems) == [kind |-> "list", elems |-> elems]
PyTuple(elems) == [kind |-> "tuple", elems |-> elems]
PyDict(has, start, end, speaker, label) ==
    [kind |-> "dict", has |-> has, start |-> start, end |-> end,
     speaker |-> speaker, label |-> label]
PyObject(has, start, end, speaker, label) ==
    [kind |-> "object", has |-> has, start |-> start, end |-> end,
     speaker |-> speaker, label |-> label]

DigitText == <<"0", "1", "2", "3", "4", "5", "6", "7", "8", "9">>

\* float(text), for the texts float() accepts here: one digit
FloatOfText ==
    [part \in {<<DigitText[n + 1]>> : n \in 0..9} |->
        CHOOSE n \in 0..9 : DigitText[n + 1] = part[1]]

\* float(x) for an element of a list or tuple
FloatOf(x) == IF x.kind = "float" THEN x.value ELSE FloatOfText[x.text]

\* f"speaker_{i}"
SpeakerDefault(i) == <<"speaker_", DigitText[i + 1]>>

\* hasattr(segment, name)
HasAttr(segment, name) == segment.kind = "object" /\ name \in segment.has

\* The dict appended to entries (its confidence is left out)
Entry(start, end, speaker) ==
    [start |-> start, end |-> end, speaker |-> speaker, duration |-> end - start]

\* The item makes float() raise ValueError: a string of three fields or more
\* whose first or second is no number.
Raises(segment) ==
    /\ segment.kind = "str"
    /\ LET parts == Split(Strip(segment.text))
       IN  /\ Len(parts) >= 3
           /\ parts[1] \notin DOMAIN FloatOfText \/ parts[2] \notin DOMAIN FloatOfText

\* The body of the loop for the i-th item (from 0): the entries it appends
ItemEntries(segment, i) ==
    IF segment.kind = "str"
    THEN LET parts == Split(Strip(segment.text))
         IN  IF Len(parts) < 3 THEN <<>>
             ELSE <<Entry(FloatOfText[parts[1]], FloatOfText[parts[2]], parts[3])>>
    ELSE IF HasAttr(segment, "start") /\ HasAttr(segment, "end") /\ HasAttr(segment, "label")
    THEN <<Entry(segment.start, segment.end, segment.label)>>
    ELSE IF segment.kind \in {"list", "tuple"} /\ Len(segment.elems) >= 3
    THEN <<Entry(FloatOf(segment.elems[1]), FloatOf(segment.elems[2]),
                 segment.elems[3].text)>>
    ELSE IF segment.kind = "dict"
    THEN <<Entry(IF "start" \in segment.has THEN segment.start ELSE 0,
                 IF "end" \in segment.has THEN segment.end ELSE 0,
                 IF "speaker" \in segment.has THEN segment.speaker
                 ELSE IF "label" \in segment.has THEN segment.label
                 ELSE SpeakerDefault(i))>>
    ELSE <<Entry(IF HasAttr(segment, "start") THEN segment.start ELSE 0,
                 IF HasAttr(segment, "end") THEN segment.end ELSE 0,
                 IF HasAttr(segment, "label") THEN segment.label
                 ELSE IF HasAttr(segment, "speaker") THEN segment.speaker
                 ELSE SpeakerDefault(i))>>

RECURSIVE EntriesFrom(_, _)
\* The loop over enumerate(segments), from the n-th item on (from 1)
EntriesFrom(segments, n) ==
    IF n > Len(segments) THEN <<>>
    ELSE ItemEntries(segments[n], n - 1) \o EntriesFrom(segments, n + 1)

\* A faulty variant of the sort: the entries stay in the order of the items.
SortByStart_Unsorted(entries) == entries

RECURSIVE SortByStart(_)
\* entries.sort(key=lambda s: s["start"]): a stable sort
SortByStart(entries) ==
    IF entries = <<>> THEN <<>>
    ELSE LET sorted == SortByStart(SubSeq(entries, 1, Len(entries) - 1))
             e == entries[Len(entries)]
             k == Cardinality({n \in 1..Len(sorted) : sorted[n].start <= e.start})
         IN  SubSeq(sorted, 1, k) \o <<e>> \o SubSeq(sorted, k + 1, Len(sorted))

\* _sortformer_segments_to_dicts(segments), for a list segments: what it
\* returns, or that it raised
SortformerSegmentsToDicts(segments) ==
    LET items == IF Len(segments) = 1 /\ segments[1].kind = "list"
                 THEN segments[1].elems
                 ELSE segments
    IN  IF \E n \in 1..Len(items) : Raises(items[n])
        THEN [raised |-> TRUE, entries |-> <<>>]
        ELSE [raised |-> FALSE, entries |-> SortByStart(EntriesFrom(items, 1))]

\* The items of the model outputs: strings, tuples, lists, mappings and
\* objects for the segments 0.0-1.5 of x and 1.5-2.0 of y, and items that lack
\* a part of one.
SortformerItems ==
    {PyStr(<<"0", " ", "3", " ", "x">>),
     PyStr(<<"3", " ", "4", " ", "y">>),
     PyStr(<<"3", " ", "4">>),
     PyStr(<<"x", " ", "3", " ", "y">>),
     PyTuple(<<PyFloat(0), PyFloat(3), PyStr(<<"x">>)>>),
     PyList(<<PyFloat(3), PyFloat(4), PyStr(<<"y">>)>>),
     PyTuple(<<PyFloat(0), PyFloat(3)>>),
     PyDict({"start", "end", "speaker"}, 3, 4, <<"y">>, <<>>),
     PyDict({"start", "end", "label"}, 0, 3, <<>>, <<"x">>),
     PyDict({"end", "speaker"}, 0, 4, <<"y">>, <<>>),
     PyObject({"start", "end", "label"}, 0, 3, <<>>, <<"x">>),
     PyObject({"start", "end", "speaker"}, 3, 4, <<"y">>, <<>>)}
MaxItems == 2
ItemLists == UNION {[1..n -> SortformerItems] : n \in 0..MaxItems}

\* The backend normalizes the output of the model's diarize: the list of the
\* items, or a list wrapping that list.
SortformerNormalize(items, wrapped) ==
    /\ worker.pc = "none"
    /\ LET segments == IF wrapped THEN <<PyList(items)>> ELSE items
           result == SortformerSegmentsToDicts(segments)
       IN  worker' = [pc |-> "normalized", items |-> items, wrapped |-> wrapped,
                      raised |-> result.raised, entries |-> result.entries]
    /\ UNCHANGED <<engine, storeVars, runnerVars, loaded, rpc, reply, outcome, stream, yielded>>

SortformerNext ==
    \E items \in ItemLists, wrapped \in BOOLEAN : SortformerNormalize(items, wrapped)

SortformerSpec == InitWith("diar", Loader(ModelSpec("sortformer", "m1"), None)) /\ [][SortformerNext]_vars

----------------------------------------------------------------------------
(* Properties of the runner *)

\* The state of the status stored for job_id, None when there is none.
StateOf(job_id) == IF status[job_id] = 0 THEN None ELSE heap[status[job_id]].state

\* A step in which thread t executes the locked section of start_job.
StartJobCalled(t) == rpc[t].pc = "start" /\ rpc'[t] # rpc[t]

\* The publications of run r, and the terminal ones among them.
RunPubs(r) == {i \in 1..Len(pubs) : pubs[i].run = r}
TerminalPubs(r) == {i \in RunPubs(r) : pubs[i].snap.state \in Terminal}

\* Run r is over: its thread has published what it publishes.
RunEnded(r) ==
    \/ r < runs
    \/ r = runs /\ active = None
    \/ worker.run = r /\ worker.pc = "finally"

\* C1: at any instant at most one job_id has a stored status in state
\* RUNNING, whatever the interleaving of StartJob, StopJob and worker steps.
C1_SingleRunning == Cardinality({j \in Jobs : StateOf(j) = "RUNNING"}) <= 1

\* A job is RUNNING and the last start, made while it held the slot, was
\* rejected as busy.
C1_Witness ==
    \E j \in Jobs :
        /\ active = j
        /\ StateOf(j) = "RUNNING"
        /\ reply.message = "engine busy"

\* C2: start_job called while a job is active returns false, publishes
\* nothing, leaves the active job id and its cancel token as they were, and
\* the job that occupies the slot still publishes its terminal status.
C2_BusyRejectionFrame ==
    /\ [][\A t \in Threads :
            (StartJobCalled(t) /\ active # None) =>
                /\ rpc'[t] = IdleThread
                /\ ~reply'.ok
                /\ UNCHANGED <<heap, status, pubs, recv, active, token, cancelled,
                               runs, worker>>]_vars
    /\ \A r \in 1..MaxRuns : (runs = r /\ active # None) ~> (TerminalPubs(r) # {})

\* The first run has published its terminal status and a start had been
\* rejected while it occupied the slot.
C2_Witness ==
    /\ runs = 1
    /\ worker.pc = "finally"
    /\ TerminalPubs(1) # {}
    /\ reply.message = "engine busy"

\* C3 as stated: the StartJob RPC made while a job is active answers with a
\* StartJobResponse carrying accepted=false and message "engine busy".
C3_BusyIsResponse ==
    [][\A t \in Threads :
        (StartJobCalled(t) /\ active # None) =>
            /\ reply'.kind = "response"
            /\ ~reply'.ok
            /\ reply'.message = "engine busy"]_vars

\* C3, amended: the StartJob RPC made while a job is active is aborted with
\* status RESOURCE_EXHAUSTED and message "engine busy", no StartJobResponse
\* is returned, and the running job's thread and outcome are not touched.
C3_BusyAborts ==
    [][\A t \in Threads :
        (StartJobCalled(t) /\ active # None) =>
            /\ reply'.rpc = "StartJob"
            /\ reply'.kind = "abort"
            /\ reply'.code = "RESOURCE_EXHAUSTED"
            /\ reply'.message = "engine busy"
            /\ UNCHANGED <<worker, outcome>>]_vars

\* The last answer is the busy abort and the job that was running at that
\* time has completed normally.
C3_Witness ==
    /\ reply.code = "RESOURCE_EXHAUSTED"
    /\ runs = 1
    /\ outcome[1].result = "ok"
    /\ StateOf(outcome[1].job) = "COMPLETED"

\* The terminal status that the way the pipeline ended calls for.
ExpectedTerminal(o, st) ==
    /\ st.job_id = o.job
    /\ o.result # "pending"
    /\ o.result = "ok" =>
          st.state = "COMPLETED" /\ st.progress = 1 /\ st.outputs # {}
    /\ o.result = "cancelled" =>
          st.state = "CANCELLED" /\ st.message = "cancelled"
    /\ o.result \in Errors =>
          st.state = "FAILED" /\ st.message = o.result

\* C9: every accepted run publishes exactly one terminal status and nothing
\* after it: COMPLETED with progress 1 and outputs when the pipeline returned,
\* CANCELLED with message "cancelled" when it raised the cancellation, FAILED
\* with the error text as message for any other failure.
C9_OutcomeMapping ==
    \A r \in 1..Len(outcome) :
        /\ Cardinality(TerminalPubs(r)) <= 1
        /\ \A i \in TerminalPubs(r) :
              /\ \A k \in RunPubs(r) : k <= i
              /\ ExpectedTerminal(outcome[r], pubs[i].snap)
        /\ RunEnded(r) => TerminalPubs(r) # {}

\* Two runs are over, one cancelled and one failed or completed.
C9_Witness ==
    /\ runs = 2
    /\ RunEnded(2)
    /\ \E r \in 1..2 : outcome[r].result = "cancelled"
    /\ \E r \in 1..2 : outcome[r].result \in Errors \cup {"ok"}

\* C10: after every accepted start the runner comes back to idle, the active
\* job id and the cancel token cleared, whether the pipeline returned, was
\* cancelled or raised; a start_job made while it is idle is accepted.
C10_ReturnToIdle ==
    /\ (active # None) ~> (active = None /\ token = 0)
    /\ [][\A t \in Threads :
            (StartJobCalled(t) /\ active = None) =>
                /\ active' = rpc[t].job
                /\ token' # 0
                /\ rpc'[t].pc = "queued"]_vars

\* A start was accepted after a run whose pipeline failed.
C10_Witness ==
    /\ runs = 2
    /\ outcome[1].result \in Errors
    /\ active = outcome[2].job

----------------------------------------------------------------------------
(* Properties of the status store and of the streams *)

\* The states of the statuses put on the queue of sink s, as they were set.
SinkStates(s) == [k \in 1..Len(recv[s]) |-> pubs[recv[s][k].pub].snap.state]

\* What follows what in the statuses of one job_id.
Successors ==
    {<<"QUEUED", "RUNNING">>, <<"RUNNING", "RUNNING">>}
        \cup {<<"RUNNING", t>> : t \in Terminal}
        \cup {<<t, "QUEUED">> : t \in Terminal}

C5_ReplayOnSubscribe ==
    \A s \in Sinks :
        (stream[s].pc # "idle" /\ stream[s].cached # 0) =>
            /\ Len(recv[s]) >= 1
            /\ recv[s][1].ref = stream[s].cached

\* C6: a stream opened for a started job, before or after the terminal
\* status was published, whose client stays connected, eventually yields a
\* terminal status and ends.
C6_StreamSeesTerminal ==
    \A s \in StreamSinks :
        (stream[s].pc = "waiting" /\ stream[s].active /\ status[stream[s].job] # 0)
            ~> \/ ~stream[s].active
               \/ /\ stream[s].pc \in {"closing", "done"}
                  /\ yielded[s] # <<>>
                  /\ yielded[s][Len(yielded[s])] \in Terminal

\* The entries of sink s that set() put, as publication numbers.
SetPubs(s) ==
    LET fresh == SelectSeq(recv[s], LAMBDA e : ~e.replay)
    IN  [k \in 1..Len(fresh) |-> fresh[k].pub]

\* The publications for job_id made after the first n, in order.
PubsSince(job_id, n) ==
    SelectSeq([i \in 1..Len(pubs) |-> i],
              LAMBDA i : i > n /\ pubs[i].snap.job_id = job_id)

IsPrefix(p, q) == Len(p) <= Len(q) /\ \A k \in 1..Len(p) : p[k] = q[k]

\* C7: a sink subscribed to job_id holds exactly the statuses set for that
\* id since it subscribed, in the order of the set calls, each once; a sink
\* no longer subscribed holds a prefix of them; only the first entry can be
\* a replay; two sinks of one job agree on the sets both were there for.
C7_DeliveryOrder ==
    /\ \A j \in Jobs : \A k \in 1..Len(subscribers[j]) :
          LET s == subscribers[j][k]
          IN  /\ stream[s].job = j
              /\ SetPubs(s) = PubsSince(j, stream[s].since)
    /\ \A s \in Sinks :
          /\ stream[s].pc = "idle" => recv[s] = <<>>
          /\ stream[s].pc # "idle" =>
                IsPrefix(SetPubs(s), PubsSince(stream[s].job, stream[s].since))
          /\ \A k \in 1..Len(recv[s]) :
                /\ recv[s][k].ref = pubs[recv[s][k].pub].ref
                /\ recv[s][k].replay => k = 1
    /\ \A s, u \in Sinks :
          (stream[s].pc # "idle" /\ stream[u].pc # "idle" /\ stream[s].job = stream[u].job) =>
              \A i \in Range(SetPubs(s)) :
                  (i > stream[u].since /\ \E n \in Range(SetPubs(u)) : n >= i)
                      => i \in Range(SetPubs(u))

\* Two sinks subscribed to one job hold the same two statuses of that job in
\* the same order.
C7_Witness ==
    \E j \in Jobs :
        /\ Len(subscribers[j]) = 2
        /\ Len(PubsSince(j, 0)) = 2
        /\ \A k \in 1..2 : SetPubs(subscribers[j][k]) = PubsSince(j, 0)

\* C8: once a sink has handed out a terminal status for job_id, get(job_id)
\* returns a status equal to it ever after, whatever StartJob, StopJob and
\* worker steps follow.
C8_TerminalClosure ==
    \A s \in Sinks :
        \A k \in 1..taken[s] :
            pubs[recv[s][k].pub].snap.state \in Terminal =>
                heap[StoreGet(stream[s].job)] = pubs[recv[s][k].pub].snap

----------------------------------------------------------------------------
(* Properties of stop_job, of cancellation and of progress *)

\* C11: stop_job(job_id) returns true and signals the active run's cancel
\* token exactly when job_id is the active job id; otherwise (idle runner,
\* another id, a finished job) it returns false and signals nothing; in
\* neither case is a status changed or published.
C11_StopJobSemantics ==
    [][\A job_id \in Jobs :
        StopJob(job_id) =>
            /\ reply'.ok <=> (active = job_id)
            /\ reply'.ok => /\ token = runs
                            /\ cancelled' = cancelled \cup {token}
                            /\ reply'.message = "stopping"
            /\ ~reply'.ok => /\ cancelled' = cancelled
                             /\ reply'.message = "not_running"
            /\ UNCHANGED <<heap, status, pubs, recv, active, token>>]_vars

\* One stop was honoured for the active job; a stop for the other job or
\* after the end of a run was answered not_running.
C11_Witness ==
    /\ cancelled # {}
    /\ reply = Response("StopJob", FALSE, "not_running")
    /\ \E j \in Jobs : StateOf(j) = "CANCELLED"

\* The job thread of run r is about to perform a cancel check: the one after
\* the model returned (diarize), or the one that precedes a remaining chunk
\* result (transcribe).
AtCancelCheck(r) ==
    /\ worker.run = r
    /\ \/ worker.pc = "cancel_check"
       \/ worker.pc = "asr_check" /\ worker.cur < worker.hi

\* Run r is over, the one terminal status it published is CANCELLED, and it
\* wrote no output file.
EndedCancelled(r) ==
    /\ RunEnded(r)
    /\ r <= Len(outcome)
    /\ TerminalPubs(r) # {}
    /\ \A i \in TerminalPubs(r) : pubs[i].snap.state = "CANCELLED"
    /\ outcome[r].files = {}

\* C12: in either engine, when the cancel token is signalled by the time the
\* pipeline performs a cancel check, the run ends with the terminal state
\* CANCELLED and writes none of its output files (no result.json); and a run
\* that was cancelled never has written a file.
C12_CancelOutcome ==
    /\ (AtCancelCheck(1) /\ worker.token \in cancelled) ~> EndedCancelled(1)
    /\ [](\A r \in 1..Len(outcome) : outcome[r].result = "cancelled" => outcome[r].files = {})

\* An ASR job was stopped after a progress event above 0 and ended CANCELLED
\* without a file.
C12_Witness ==
    /\ engine = "asr"
    /\ EndedCancelled(1)
    /\ StateOf("a") = "CANCELLED"
    /\ \E i \in RunPubs(1) : pubs[i].snap.state = "RUNNING" /\ pubs[i].snap.progress > 0

\* C13: in an ASR job, at most one call of the progress callback begins after
\* the cancel token was signalled: the next pair of the loop meets the check.
C13_OneLateCallback == \A r \in 1..Len(outcome) : outcome[r].late <= 1

\* The token was signalled between a check and the callback of the same chunk:
\* that callback was made, and the next check raised.
C13_Witness ==
    /\ engine = "asr"
    /\ Len(outcome) = 1
    /\ outcome[1].late = 1
    /\ outcome[1].result = "cancelled"

\* The publications of job_id, in order, and those adjacent among them.
JobPubs(job_id) == {i \in 1..Len(pubs) : pubs[i].snap.job_id = job_id}
Consecutive(job_id, i, j) ==
    /\ i \in JobPubs(job_id) /\ j \in JobPubs(job_id) /\ i < j
    /\ \A k \in JobPubs(job_id) : ~(i < k /\ k < j)

\* C14: every published progress lies between 0.0 and 1.0, and of two
\* consecutive publications of a job that are both RUNNING the later one has
\* at least the progress of the earlier one, in the ASR engine (per-chunk
\* progress) and in the diarization engine (0 then 1).
C14_ProgressMonotone ==
    /\ \A i \in 1..Len(pubs) : pubs[i].snap.progress \in 0..ProgressOne
    /\ \A job_id \in Jobs : \A i, j \in JobPubs(job_id) :
          (/\ Consecutive(job_id, i, j)
           /\ pubs[i].snap.state = "RUNNING"
           /\ pubs[j].snap.state = "RUNNING")
          => pubs[i].snap.progress <= pubs[j].snap.progress

\* An ASR job published two chunk progresses strictly between 0 and 1, one
\* after the other.
C14_Witness ==
    /\ engine = "asr"
    /\ \E i, j \in JobPubs("a") :
          /\ Consecutive("a", i, j)
          /\ pubs[i].snap.state = "RUNNING" /\ pubs[j].snap.state = "RUNNING"
          /\ 0 < pubs[i].snap.progress
          /\ pubs[i].snap.progress < pubs[j].snap.progress
          /\ pubs[j].snap.progress < ProgressOne

(* Properties of the model manager and of the service *)

\* C15: after a load that fails (the loader raises, for an unsupported
\* model_id or a model that cannot be opened) the slot is empty, whatever it
\* held before.
C15_FailedLoadEmptiesSlot ==
    [][\A spec \in LoadSpecs, can_open \in BOOLEAN :
          (LoadModel(spec, can_open) /\ LoaderRaises(spec, can_open)) => loaded' = NoModel]_vars

\* C16: unload(model_id) returns true and empties the slot exactly when a
\* model is loaded and model_id is absent or equal to the loaded id; otherwise
\* it returns false and leaves the slot as it was, so that an unload of the
\* empty slot (a second unload included) returns false and changes nothing.
C16_UnloadSemantics ==
    [][\A model_id \in RequestModelIds :
          UnloadModel(model_id) =>
              /\ reply'.ok <=> (loaded # NoModel /\ (model_id = "" \/ model_id = loaded.model_id))
              /\ reply'.ok => loaded' = NoModel
              /\ ~reply'.ok => loaded' = loaded
              /\ UNCHANGED <<storeVars, runnerVars, worker>>]_vars

\* An unload naming another model than the loaded one was refused and the
\* loaded model is still there.
C16_Witness ==
    /\ reply = Response("UnloadModel", FALSE, "not_loaded")
    /\ loaded # NoModel

\* C17: ensure_loaded(spec, hf_token) invokes the loader exactly when the slot
\* is empty, or the loaded model_id differs from spec.model_id, or the model
\* is pyannote and hf_token differs from the token the model was loaded with
\* (a change from a token to none included).
C17_ReloadsOnTokenChange ==
    worker.pc = "ensure" =>
        (EnsureReloads(JobSpec, worker.params.hf_token) <=>
            \/ loaded = NoModel
            \/ loaded.model_id # JobSpec.model_id
            \/ JobSpec.model_id = "pyannote" /\ loaded.token # worker.params.hf_token)

\* C18: a job that StartJob accepted holds a model from then on: whatever
\* LoadModel and UnloadModel calls are interleaved with it, it does not fail
\* for want of a model, and when its pipeline comes to ensure_loaded, whose
\* result it runs, the slot holds the model the pipeline took at its start.
C18_JobHoldsItsModel ==
    /\ \A r \in 1..Len(outcome) : outcome[r].result # "No model loaded"
    /\ worker.pc = "ensure" => loaded = worker.model

\* C19: StartJob with no model loaded aborts with FAILED_PRECONDITION, and
\* StartJob with a model_id that differs from the loaded one aborts with
\* INVALID_ARGUMENT; neither publishes a status nor changes the active slot,
\* the cancel token or the model slot, and start_job is not called.
C19_StartJobPreconditions ==
    [][\A t \in Threads, job_id \in Jobs, model_id \in RequestModelIds, params \in ParamSets :
          StartJobCheck(t, job_id, model_id, params) =>
              /\ loaded = NoModel =>
                    /\ reply' = Abort("StartJob", "FAILED_PRECONDITION", "no model loaded")
                    /\ UNCHANGED <<storeVars, runnerVars, loaded, rpc, worker, outcome>>
              /\ (loaded # NoModel /\ model_id # "" /\ model_id # loaded.model_id) =>
                    /\ reply' = Abort("StartJob", "INVALID_ARGUMENT", "model_id mismatch")
                    /\ UNCHANGED <<storeVars, runnerVars, loaded, rpc, worker, outcome>>]_vars

\* A StartJob naming another model was refused while a job was running, and
\* one without a model was refused before.
C19_Witness ==
    /\ reply = Abort("StartJob", "INVALID_ARGUMENT", "model_id mismatch")
    /\ active # None
    /\ \E j \in Jobs : StateOf(j) = "RUNNING"

\* C20: GetEngineInfo answers busy = true exactly when the runner's active
\* slot is occupied, whatever job_id StartJob accepted for it, and then
\* answers that job_id as active_job_id.
C20_BusyIffActive ==
    [][GetEngineInfo =>
          /\ reply'.busy <=> (active # None)
          /\ active # None => reply'.active_job_id = active]_vars

(* Properties of the status streams' ends and of StartJob's input *)

\* C21: however a StreamJobStatus call ends (terminal status yielded, client
\* gone at a yield, context inactive at a timeout), its queue is in no
\* subscriber list afterwards, and nothing is put on it any more.
C21_UnsubscribedAfterEnd ==
    [][\A s \in Sinks :
          /\ stream'[s].pc = "done" => \A j \in JobIds : s \notin Range(subscribers'[j])
          /\ stream[s].pc = "done" => recv'[s] = recv[s]]_vars

\* One stream ended because its client had gone, the other after it yielded a
\* terminal status of the same job, of which the first received nothing.
C21_Witness ==
    /\ stream["s1"].pc = "done" /\ ~stream["s1"].active
    /\ stream["s2"].pc = "done" /\ stream["s2"].active
    /\ stream["s1"].job = stream["s2"].job
    /\ yielded["s2"] # <<>> /\ yielded["s2"][Len(yielded["s2"])] = "COMPLETED"
    /\ recv["s1"] = <<>>

\* A step of the StreamJobStatus call s that ends it or follows its end: the
\* client goes, the loop breaks, the finally clause unsubscribes.
StreamEnding(s) ==
    \/ ClientCancel(s)
    \/ StreamTimeout(s)
    \/ StreamClose(s)
    \/ StreamNext(s) /\ stream'[s].pc = "closing"

\* C22: no step in which a StreamJobStatus call ends changes the runner's
\* active job id, the cancel token or its event, the stored statuses or the
\* job thread.
C22_StreamEndLeavesJob ==
    [][\A s \in Sinks :
          StreamEnding(s) => UNCHANGED <<active, token, cancelled, heap, status, worker, outcome>>]_vars

\* The client of a stream went away while its job was running, the stream
\* ended without a terminal status, and the job completed afterwards.
C22_Witness ==
    /\ stream["s1"].pc = "done" /\ ~stream["s1"].active
    /\ "RUNNING" \in Range(yielded["s1"])
    /\ "COMPLETED" \notin Range(yielded["s1"])
    /\ StateOf("a") = "COMPLETED"
    /\ Len(outcome) = 1 /\ outcome[1].result = "ok"

\* The params map gives an integer key a text that int() refuses.
Malformed(kv) == kv.batch_size # None /\ kv.batch_size \notin DOMAIN IntOf

\* C23: a StartJob whose job_id is empty, or whose params map carries a
\* malformed value for an integer key, is aborted with INVALID_ARGUMENT and
\* start_job is not called for it.
C23_RejectsBadRequest ==
    [][\A job_id \in ServiceJobs, kv \in KvMaps :
          (StartJobRequest("t1", job_id, "", kv) /\ (job_id = "" \/ Malformed(kv))) =>
              /\ reply'.kind = "abort" /\ reply'.code = "INVALID_ARGUMENT"
              /\ UNCHANGED rpc]_vars

(* Properties of the ASR parameters and results *)

\* C24: a transcription whose params come from JobParams.from_kv of a map
\* without chunk_len_s, chunk_batch_size and segment_gap_s reads their
\* defaults once the audio is loaded and goes on to recognition; it does not
\* raise.
C24_FromKvDefaultsRun ==
    [][\A len \in 0..MaxAudio :
          (worker.params = AsrFromKv /\ AsrLoadAudio(len, TRUE)) =>
              /\ worker'.pc = "recognize"
              /\ outcome'[worker.run].result = "pending"]_vars

(* Properties of merge_short_segments *)

\* The segment is short for the call the worker made.
Short(seg) ==
    \/ Duration(seg) < worker.attach_threshold_s
    \/ Len(Split(seg.text)) <= worker.attach_max_words

\* The segments of X that are not folded: the first, and every one not short.
Kept(X) == {i \in 1..Len(X) : i = 1 \/ ~Short(X[i])}

\* The last segment folded into the kept segment i.
LastFolded(X, i) == CHOOSE j \in i..Len(X) :
    /\ \A n \in (i + 1)..j : n \notin Kept(X)
    /\ j = Len(X) \/ (j + 1) \in Kept(X)

\* M is X with every short segment that has a predecessor folded into it: the
\* result keeps the predecessor's start, takes the end of the last segment
\* folded, and the texts joined by one space; the others stay, in order.
FoldedInto(X, M) ==
    /\ Len(M) = Cardinality(Kept(X))
    /\ \A i \in Kept(X) :
          LET k == Cardinality({n \in Kept(X) : n <= i})
              j == LastFolded(X, i)
          IN  /\ M[k].start = X[i].start
              /\ M[k].end = X[j].end
              /\ M[k].text = Join([n \in 1..(j - i + 1) |-> X[i + n - 1].text])

\* The segments with their texts stripped, without those whose text is empty.
Stripped(X) ==
    SelectSeq([n \in 1..Len(X) |-> Segment(Strip(X[n].text), X[n].start, X[n].end)],
              LAMBDA seg : seg.text # <<>>)

C25_IndexConsistency ==
    (worker.pc = "written" /\ worker.params.merge_short_segments) =>
        LET W == worker.words_jsonl
            S == worker.segments_jsonl
        IN  \A i \in 1..Len(W) :
                /\ W[i].global_word_index = i
                /\ W[i].word_index_in_segment =
                       1 + Cardinality({j \in 1..(i - 1) :
                                           W[j].segment_index = W[i].segment_index})
                /\ \E k \in 1..Len(S) :
                       /\ S[k].segment_index = W[i].segment_index
                       /\ W[i].word_index_in_segment <= Len(Split(S[k].text))
                       /\ Split(S[k].text)[W[i].word_index_in_segment] = W[i].word

\* C26: in the files of a completed job, for each word w and the segment s of
\* segments.jsonl with s.segment_index = w.segment_index,
\* s.start <= w.start <= w.end <= s.end.
C26_TimeContainment ==
    worker.pc = "written" =>
        LET W == worker.words_jsonl
            S == worker.segments_jsonl
        IN  \A i \in 1..Len(W), k \in 1..Len(S) :
                S[k].segment_index = W[i].segment_index =>
                    /\ S[k].start <= W[i].start
                    /\ W[i].start <= W[i].end
                    /\ W[i].end <= S[k].end

\* C30: for every chunk whose text is not empty, whether its words are timed
\* from tokens and timestamps or by character-proportional interpolation, the
\* end of the chunk's last word is the chunk's end in global audio time.
C30_LastWordClamp ==
    [][\A res \in Results :
          (TranscribeChunk(res) /\ Len(worker'.word_entries) > Len(worker.word_entries)) =>
              worker'.word_entries[Len(worker'.word_entries)].end
                  = (worker.cur + 1) * ChunkTicks]_vars

\* The truth value a well-formed text of a boolean key states.
BoolOf == [v \in {" True ", "0"} |-> v = " True "]

\* C28: JobParams.from_kv of the diarization engine gives every omitted key
\* the default of the params table ("rttm", none, 1, exclusive = true), and
\* every present well-formed key the value supplied.
C28_FromKvDefaults ==
    [][\A job_id \in ServiceJobs, kv \in KvMaps :
          (StartJobRequest("t1", job_id, "", kv) /\ rpc'["t1"].pc = "start") =>
              LET params == rpc'["t1"].params
              IN  /\ kv.output_format = None => params.output_format = "rttm"
                  /\ kv.hf_token = None => params.hf_token = None
                  /\ kv.model = None => params.model = None
                  /\ kv.batch_size = None => params.batch_size = 1
                  /\ kv.exclusive = None => params.exclusive = TRUE
                  /\ kv.output_format # None => params.output_format = kv.output_format
                  /\ kv.hf_token \notin {None, ""} => params.hf_token = kv.hf_token
                  /\ kv.batch_size \in DOMAIN IntOf => params.batch_size = IntOf[kv.batch_size]
                  /\ kv.exclusive \in DOMAIN BoolOf =>
                        params.exclusive = BoolOf[kv.exclusive]]_vars

(* Properties of the Sortformer normalization *)

\* The item states a segment: a string of three fields with numeric start and
\* end, a tuple or list of three elements or more, a mapping or an object with
\* start, end and speaker or label.
WellFormed(item) ==
    CASE item.kind = "str" ->
            LET parts == Split(Strip(item.text))
            IN  /\ Len(parts) >= 3
                /\ parts[1] \in DOMAIN FloatOfText /\ parts[2] \in DOMAIN FloatOfText
      [] item.kind \in {"list", "tuple"} -> Len(item.elems) >= 3
      [] item.kind \in {"dict", "object"} ->
            /\ {"start", "end"} \subseteq item.has
            /\ "speaker" \in item.has \/ "label" \in item.has
      [] OTHER -> FALSE

\* The segment a well-formed item states.
StatedSegment(item) ==
    CASE item.kind = "str" ->
            LET parts == Split(Strip(item.text))
            IN  Entry(FloatOfText[parts[1]], FloatOfText[parts[2]], parts[3])
      [] item.kind \in {"list", "tuple"} ->
            Entry(item.elems[1].value, item.elems[2].value, item.elems[3].text)
      [] OTHER ->
            Entry(item.start, item.end,
                  IF "speaker" \in item.has THEN item.speaker ELSE item.label)

\* The segments stated by the well-formed items, in the order of the items.
StatedSegments(items) ==
    LET wf == SelectSeq(items, WellFormed)
    IN  [n \in 1..Len(wf) |-> StatedSegment(wf[n])]

Count(s, e) == Cardinality({n \in 1..Len(s) : s[n] = e})

\* The normalizer returned one segment per well-formed item, sorted by start.
OnePerWellFormedItem ==
    /\ ~worker.raised
    /\ \A n \in 1..(Len(worker.entries) - 1) :
          worker.entries[n].start <= worker.entries[n + 1].start
    /\ \A e \in Range(worker.entries) \cup Range(StatedSegments(worker.items)) :
          Count(worker.entries, e) = Count(StatedSegments(worker.items), e)

Unambiguous(items, wrapped) ==
    /\ \A n \in 1..Len(items) :
          \/ WellFormed(items[n])
          \/ items[n].kind = "str" /\ Len(Split(Strip(items[n].text))) < 3
    /\ ~(~wrapped /\ Len(items) = 1 /\ items[1].kind = "list")

----------------------------------------------------------------------------
(* Terminal statuses *)

\* The files a terminal status names: the paths of its outputs.
NamedFiles(st) == {e[2] : e \in st.outputs}

\* C31: every terminal status the runner publishes has finished_unix_ms >=
\* started_unix_ms, and its outputs are empty (FAILED, CANCELLED) or consist
\* only of entries naming files the run has completely written (COMPLETED).
C31_TerminalShape ==
    \A i \in 1..Len(pubs) :
        LET st == pubs[i].snap
        IN  st.state \in Terminal =>
              /\ st.finished_unix_ms >= st.started_unix_ms
              /\ IF st.state = "COMPLETED"
                 THEN NamedFiles(st) \subseteq outcome[pubs[i].run].files
                 ELSE st.outputs = {}

----------------------------------------------------------------------------
(* result.json *)

\* The files a run of the pipeline is to write (all of them, with the
\* default params).
RunFiles == IF engine = "asr" THEN Range(AsrOutputFiles) ELSE Range(OutputFiles)

\* Every output file of run r exists and is completely written.
OutputsComplete(r) == RunFiles \subseteq outcome[r].files /\ outcome[r].torn = {}

\* Run r has published COMPLETED.
PublishedCompleted(r) ==
    \E i \in 1..Len(pubs) : pubs[i].run = r /\ pubs[i].snap.state = "COMPLETED"

\* C32: result.json is written after every other output file of the run has
\* been fully written and COMPLETED is published after result.json has been
\* written; whenever COMPLETED has been published, or result.json is there to
\* be observed, all outputs of that run are complete.
C32_ResultMarksCompletion ==
    \A r \in 1..Len(outcome) :
        /\ "result.json" \in outcome[r].files =>
              /\ (RunFiles \ {"result.json"}) \subseteq (outcome[r].files \ outcome[r].torn)
              /\ OutputsComplete(r)
        /\ PublishedCompleted(r) =>
              "result.json" \in outcome[r].files /\ OutputsComplete(r)

----------------------------------------------------------------------------
(* Slow subscribers *)

\* Sink s holds at least n statuses it has not taken.
Backlog(s, n) == Len(recv[s]) - taken[s] >= n

\* A set call was made in this step.
SetCalled == Len(pubs') = Len(pubs) + 1

\* C33: a subscriber that does not drain its queue stalls nobody: whatever
\* the queues hold, a set call stores the status and puts it on the queue of
\* every subscriber of the job in the same step, and a job thread that has
\* started always reaches the end of its run.
C33_SlowSubscribers ==
    /\ [][SetCalled =>
            LET p == pubs'[Len(pubs')]
            IN  /\ status'[p.snap.job_id] = p.ref
                /\ \A s \in Range(subscribers[p.snap.job_id]) :
                      recv'[s] = Append(recv[s], [ref |-> p.ref, pub |-> Len(pubs'),
                                                  replay |-> FALSE])]_vars
    /\ (worker.pc # "none") ~> (worker.pc = "none" /\ \A r \in 1..Len(outcome) : outcome[r].result # "pending")

\* One sink has taken nothing of the three statuses put on its queue, the
\* other has taken everything, and the run has ended.
C33_Witness ==
    /\ Backlog("s1", 3) /\ taken["s1"] = 0
    /\ Len(recv["s2"]) >= 3 /\ taken["s2"] = Len(recv["s2"])
    /\ runs = 1 /\ worker.pc = "none"

----------------------------------------------------------------------------
(* The model override of a diarization job *)

\* ensure_loaded has returned in this step: diarize goes on to the model run.
EnsureReturned == worker.pc = "ensure" /\ worker'.pc = "diarize"

\* The job asks for another model_name than that of the model diarize found
\* loaded (worker.model), under the same model_id.
Overrides ==
    /\ worker.params.model # None
    /\ worker.params.model # worker.model.model_name
    /\ loaded.model_id = worker.model.model_id

\* C34: when params.model differs from the loaded model's model_name, then
\* after ensure_loaded the slot holds, and the job runs with and reports in
\* its outputs (loaded.spec of diarize, worker.model), a model whose
\* model_name is params.model.
C34_ModelOverride ==
    [][(EnsureReturned /\ Overrides) =>
          /\ loaded'.model_name = worker.params.model
          /\ worker'.model.model_name = worker.params.model]_vars

----------------------------------------------------------------------------
(* The runner's slot and the store *)

\* get(job_id) returns a status whose state is QUEUED or RUNNING.
StoredLive(job_id) ==
    StoreGet(job_id) # 0 /\ heap[StoreGet(job_id)].state \in {"QUEUED", "RUNNING"}

\* C35: at every instant the runner's active_job_id is j exactly when the
\* status the store holds for j is QUEUED or RUNNING: while j is active get(j)
\* is not none, and once j's terminal status is stored the slot is free for a
\* new start_job.
C35_RunnerStoreConsistency ==
    \A j \in Jobs : (active = j) <=> StoredLive(j)

----------------------------------------------------------------------------
(* Statuses after their publication *)

\* The status a queue entry refers to is what was passed to set at the
\* publication that put it there.
AsPublished(entry) == heap[entry.ref] = pubs[entry.pub].snap

\* C36: every status waiting in a subscriber's queue, and the status get
\* returns, carries exactly the field values it had when it was passed to set:
\* no later progress callback alters it, and no reader finds it partly updated.
C36_ImmutableSnapshots ==
    /\ \A s \in Sinks : \A k \in (taken[s] + 1)..Len(recv[s]) : AsPublished(recv[s][k])
    /\ \A j \in JobIds : StoreGet(j) # 0 => heap[StoreGet(j)] = pubs[LastPub(j)].snap

----------------------------------------------------------------------------
(* Acknowledged stops *)

\* stop_job has returned True for run r: its token is signalled.
StopAcknowledged(r) == r \in cancelled

\* C37: a run for which stop_job has returned True does not publish
\* COMPLETED from then on; its terminal state is CANCELLED, or FAILED if the
\* pipeline raised.
C37_AcknowledgedStop ==
    [][\A r \in 1..Len(outcome) :
          (StopAcknowledged(r) /\ ~PublishedCompleted(r)) => ~PublishedCompleted(r)']_vars

----------------------------------------------------------------------------
(* The model slot after an unload *)

\* A LoadModel call was answered in this step.
LoadModelStep == \E spec \in LoadSpecs, can_open \in BOOLEAN : LoadModel(spec, can_open)

\* C38: once UnloadModel has emptied the slot it stays empty (ListLoadedModels
\* returns no model) until a LoadModel call succeeds: no other step of the
\* engine, a running job's included, fills an empty slot.
C38_UnloadSticks ==
    [][(loaded = NoModel /\ loaded' # NoModel) => LoadModelStep]_vars

----------------------------------------------------------------------------
(* Cancel tokens *)

\* start_job has accepted a job in this step and minted its token.
Minted == runs' = runs + 1

\* C39: the token the job thread of a run holds is the one its start_job
\* minted, which is new and unsignalled when it is minted; while a run is
\* active stop_job signals that run's token and no other; so a run's pipeline
\* sees a cancellation only if a stop was acknowledged for that very run: a
\* stop for an earlier run, of the same job id or not, never reaches it.
C39_TokenIsolation ==
    /\ [](worker.pc # "none" =>
            /\ worker.token = worker.run
            /\ worker.pc # "finally" => (token = worker.token /\ active = worker.job))
    /\ [][Minted => /\ token' = runs'
                    /\ token' \notin cancelled'
                    /\ worker.pc = "none"]_vars
    /\ [][cancelled' # cancelled =>
            /\ active # None /\ token = runs
            /\ cancelled' = cancelled \cup {token}]_vars
    /\ [](\A r \in 1..Len(outcome) : outcome[r].result = "cancelled" => r \in cancelled)

\* Two runs of one job id: the first was stopped and ended cancelled, the
\* second, never stopped, passed its cancel check and returned.
C39_Witness ==
    /\ Len(outcome) = 2
    /\ outcome[1].job = outcome[2].job
    /\ 1 \in cancelled /\ outcome[1].result = "cancelled"
    /\ 2 \notin cancelled /\ outcome[2].result = "ok"

====
